---- MODULE Spec2Model ----
(***************************************************************************)
(* GeoGebra construction -> TikZ translator (legacy/old-web/tikz-generator.js) *)
(* GGBParser (Document Reader + Semantic Classifier) and TikZGenerator      *)
(* (Bounds Engine + Code Generator).                                        *)
(*                                                                          *)
(* Numbers.  A JavaScript number is a record [fin, v]: fin = FALSE is a     *)
(* non-finite value (NaN or +/-Infinity, which every test of the code       *)
(* treats alike through Number.isFinite); otherwise v is the value in       *)
(* thousandths (fixed point, 1.234 is 1234).  Quotients are rounded to the  *)
(* nearest thousandth.  Epsilon tests of the code (1e-12 .. 1e-6) separate  *)
(* zero from non-zero at this resolution.                                   *)
(*                                                                          *)
(* Text.  The generated program is a sequence of statements, one record per *)
(* emitted line: its category block, its kind, the label it is about, the   *)
(* point references it prints and the other numbers it prints.              *)
(***************************************************************************)
EXTENDS Integers, Sequences, FiniteSets, TLC

VARIABLES
    pc,        \* position of the caller in  new GGBParser / parse / new TikZGenerator / generate
    parser,    \* the GGBParser instance: document and indexes
    parsed,    \* the value returned by parse()
    gen,       \* the TikZGenerator instance: options and per-call fields
    out,       \* outcome of the last generate(): thrown fault or returned statements
    before,    \* the parsed model and the instance as they were when generate() was entered
    calls,     \* number of generate() calls made on the instance
    app        \* the page around the generator: requests, stored settings, chat, script loader

vars == <<pc, parser, parsed, gen, out, before, calls, app>>

\* the generator's own variables
genVars == <<pc, parser, parsed, gen, out, before, calls>>

\* the page state while only the generator is exercised
NoApp == [component |-> "generator"]

----------------------------------------------------------------------------
(* Numbers *)

NaN == [fin |-> FALSE, v |-> 0]
Num(i) == [fin |-> TRUE, v |-> i]
IsFinite(n) == n.fin

Abs(i) == IF i < 0 THEN -i ELSE i
Sgn(i) == IF i < 0 THEN -1 ELSE IF i > 0 THEN 1 ELSE 0
Max2(a, b) == IF a >= b THEN a ELSE b
Min2(a, b) == IF a <= b THEN a ELSE b

\* nearest integer to n/d (d # 0), halves away from zero
RoundDiv(n, d) ==
    LET an == Abs(n)
        ad == Abs(d)
        q  == (2 * an + ad) \div (2 * ad)
    IN  Sgn(n) * Sgn(d) * q

\* x.toFixed(2) read back as a number: two decimals
ToFixed2(n) == IF n.fin THEN Num(10 * RoundDiv(n.v, 10)) ELSE NaN

\* a / b
NumDiv(a, b) ==
    IF a.fin /\ b.fin /\ b.v # 0 THEN Num(RoundDiv(a.v * 1000, b.v)) ELSE NaN

\* integer square root (floor) by bisection: lo * lo <= n < hi * hi
RECURSIVE IsqrtBetween(_, _, _)
IsqrtBetween(n, lo, hi) ==
    IF hi - lo <= 1 THEN lo
    ELSE LET mid == (lo + hi) \div 2
         IN  IF mid * mid <= n THEN IsqrtBetween(n, mid, hi) ELSE IsqrtBetween(n, lo, mid)

Isqrt(n) == IsqrtBetween(n, 0, 46340)

\* nearest integer to the square root of n >= 0
RoundSqrt(n) ==
    LET s == Isqrt(n)
    IN  IF n - s * s > s THEN s + 1 ELSE s

\* product and quotient of two values in thousandths, in thousandths
MulK(x, y) == RoundDiv(x * y, 1000)
DivK(x, y) == RoundDiv(x * 1000, y)

\* nearest integer to x * m / d for x >= 0, d > 0, without forming x * m
MulDiv(x, m, d) == (x \div d) * m + RoundDiv((x % d) * m, d)

\* sequence helpers
RECURSIVE SumSeq(_)
SumSeq(s) == IF s = <<>> THEN 0 ELSE Head(s) + SumSeq(Tail(s))

RECURSIVE Flatten(_)
Flatten(ss) == IF ss = <<>> THEN <<>> ELSE Head(ss) \o Flatten(Tail(ss))

RECURSIVE Reverse(_)
Reverse(s) == IF s = <<>> THEN <<>> ELSE Append(Reverse(Tail(s)), Head(s))

MapSeq(s, F(_)) == [i \in 1..Len(s) |-> F(s[i])]

SeqsUpTo(S, n) == UNION {[1..k -> S] : k \in 0..n}

\* index of the last position of s satisfying P, 0 when none
LastIndex(s, P(_)) ==
    LET I == {i \in 1..Len(s) : P(s[i])}
    IN  IF I = {} THEN 0 ELSE CHOOSE i \in I : \A j \in I : j <= i

FirstIndex(s, P(_)) ==
    LET I == {i \in 1..Len(s) : P(s[i])}
    IN  IF I = {} THEN 0 ELSE CHOOSE i \in I : \A j \in I : i <= j

----------------------------------------------------------------------------
(* Construction document: element, command and expression nodes *)

Coord(x, y) == [has |-> TRUE, x |-> x, y |-> y]
NoCoord == [has |-> FALSE, x |-> NaN, y |-> NaN]

\* <coords x= y= z=/> sub-node of an element (has = FALSE: no such node)
Coords(x, y, z) == [has |-> TRUE, x |-> x, y |-> y, z |-> z]
NoCoords == [has |-> FALSE, x |-> NaN, y |-> NaN, z |-> NaN]

\* <matrix A0= .. A5=/> sub-node of a conic element.  The constant term A2
\* carries six decimals (its v is in millionths), so that the matrix of a
\* circle with centre and radius in thousandths is exact; the other entries
\* are in thousandths.
Matrix(a0, a1, a2, a3, a4, a5) ==
    [has |-> TRUE, A0 |-> a0, A1 |-> a1, A2 |-> a2, A3 |-> a3, A4 |-> a4, A5 |-> a5]
NoMatrix ==
    [has |-> FALSE, A0 |-> NaN, A1 |-> NaN, A2 |-> NaN, A3 |-> NaN, A4 |-> NaN, A5 |-> NaN]

\* an <element> node; show is the object attribute of its <show> node
\* ("absent" when there is no <show> node)
\* val: the <value val=> of an angle element, held in degrees
Element(type, label, show, coords, matrix, val) ==
    [type |-> type, label |-> label, show |-> show, coords |-> coords, matrix |-> matrix,
     val |-> val]

\* one attribute a<i> of a command's <input>: the text and how the
\* parser's regular expressions read it
InLabel(text) == [text |-> text, isCoordinate |-> FALSE, isNumber |-> FALSE, x |-> 0, y |-> 0]
InCoord(text, x, y) == [text |-> text, isCoordinate |-> TRUE, isNumber |-> FALSE, x |-> x, y |-> y]
InNumber(text, n) == [text |-> text, isCoordinate |-> FALSE, isNumber |-> TRUE, x |-> n, y |-> 0]

\* a <command> node; hasInput / hasOutput: whether the <input> / <output>
\* sub-node exists; outputs are the a0.. attributes of <output>
Command(name, inputs, outputs) ==
    [name |-> name, hasInput |-> TRUE, hasOutput |-> TRUE, inputs |-> inputs, outputs |-> outputs]

\* an <expression label= exp=> node; isCoordinate: exp is a coordinate literal
Expression(label, exp, isCoordinate, x, y) ==
    [label |-> label, exp |-> exp, isCoordinate |-> isCoordinate, x |-> x, y |-> y]

Document(elements, commands, expressions) ==
    [hasConstruction |-> TRUE, elements |-> elements, commands |-> commands,
     expressions |-> expressions]

\* a document without a <construction> node (not a construction file, or
\* markup the DOM parser could not read)
NoConstructionDocument ==
    [hasConstruction |-> FALSE, elements |-> <<>>, commands |-> <<>>, expressions |-> <<>>]

----------------------------------------------------------------------------
(* GGBParser: indexes *)

Range(s) == {s[i] : i \in 1..Len(s)}

EmptyMap == <<>>

\* map with the entries of m, and e under every key of K (later writes win)
Put(m, K, e) == [k \in (DOMAIN m) \cup K |-> IF k \in K THEN e ELSE m[k]]

\* entry of the command list / command map for one <command> node:
\* empty output attributes are skipped
CmdEntry(cmd) ==
    [name |-> cmd.name, inputs |-> cmd.inputs,
     outputs |-> SelectSeq(cmd.outputs, LAMBDA o : o # "")]

\* buildCmdMap, the ordered command list: commands lacking an <input> or an
\* <output> node are skipped
BuildCommandList(commands) ==
    MapSeq(SelectSeq(commands, LAMBDA c : c.hasInput /\ c.hasOutput), CmdEntry)

\* an index in which the first command to list a label keeps it
CmdMapPutFirst(map, entry) == Put(map, Range(entry.outputs) \ DOMAIN map, entry)

\* buildCmdMap, the forEach over the outputs of one command
CmdMapPut(map, entry) == Put(map, Range(entry.outputs), entry)

RECURSIVE CmdMapFold(_, _)
CmdMapFold(list, map) ==
    IF list = <<>> THEN map ELSE CmdMapFold(Tail(list), CmdMapPut(map, Head(list)))

BuildCmdMap(commands) == CmdMapFold(BuildCommandList(commands), EmptyMap)

RECURSIVE ElementMapFold(_, _)
ElementMapFold(elements, map) ==
    IF elements = <<>> THEN map
    ELSE LET el == Head(elements)
         IN  ElementMapFold(Tail(elements),
                            IF el.label # "" THEN Put(map, {el.label}, el) ELSE map)

BuildElementMap(elements) == ElementMapFold(elements, EmptyMap)

RECURSIVE ExpMapFold(_, _)
ExpMapFold(exps, map) ==
    IF exps = <<>> THEN map
    ELSE LET e == Head(exps)
         IN  ExpMapFold(Tail(exps), IF e.label # "" THEN Put(map, {e.label}, e) ELSE map)

BuildExpMap(expressions) == ExpMapFold(expressions, EmptyMap)

\* new GGBParser(xmlString)
NewParserInstance(doc) ==
    [doc |-> doc, expMap |-> EmptyMap, cmdMap |-> EmptyMap, commandList |-> <<>>,
     elementMap |-> EmptyMap]

\* the three build calls at the head of parse()
WithIndexes(p) ==
    [p EXCEPT !.expMap = BuildExpMap(p.doc.expressions),
              !.cmdMap = BuildCmdMap(p.doc.commands),
              !.commandList = BuildCommandList(p.doc.commands),
              !.elementMap = BuildElementMap(p.doc.elements)]

HasCmd(p, label) == label \in DOMAIN p.cmdMap

\* "" stands for null
GetElementType(p, label) ==
    IF label \in DOMAIN p.elementMap THEN p.elementMap[label].type ELSE ""

Visible(el) == el.show # "false"

RecognisedTypes ==
    {"point", "function", "segment", "polygon", "vector", "line", "ray", "angle",
     "conic", "conicpart"}

----------------------------------------------------------------------------
(* GGBParser: element readers *)

\* homogeneous coordinates of a <coords> node: (x/z, y/z) when z is usable
Dehomogenise(c) ==
    IF c.z.fin /\ c.z.v # 0
    THEN Coord(NumDiv(c.x, c.z), NumDiv(c.y, c.z))
    ELSE Coord(c.x, c.y)

ResolvePointByLabel(p, label) ==
    IF label = "" THEN NoCoord
    ELSE IF label \in DOMAIN p.elementMap /\ p.elementMap[label].type = "point"
            /\ p.elementMap[label].coords.has
         THEN Dehomogenise(p.elementMap[label].coords)
         ELSE IF label \in DOMAIN p.expMap /\ p.expMap[label].isCoordinate
              THEN Coord(Num(p.expMap[label].x), Num(p.expMap[label].y))
              ELSE NoCoord

\* {label, coord} of a command input read as a point
NormalizeInputPoint(p, input) ==
    IF input.isCoordinate
    THEN [label |-> "", coord |-> Coord(Num(input.x), Num(input.y))]
    ELSE [label |-> input.text, coord |-> ResolvePointByLabel(p, input.text)]

NoInputPoint == [label |-> "", coord |-> NoCoord]

InputPointAt(p, inputs, i) ==
    IF i <= Len(inputs) THEN NormalizeInputPoint(p, inputs[i]) ELSE NoInputPoint

ClassifyPointSource(p, label) ==
    IF HasCmd(p, label)
    THEN LET cmd == p.cmdMap[label]
         IN  CASE cmd.name = "Point" ->
                    IF \E i \in 1..Len(cmd.inputs) : ~cmd.inputs[i].isCoordinate
                    THEN "point_on_object" ELSE "point_by_coordinate_command"
               [] cmd.name \in {"Intersect", "IntersectPath"} -> "intersection_point"
               [] cmd.name = "Midpoint" -> "midpoint"
               [] cmd.name = "Center" -> "center_point"
               [] OTHER -> "derived_point"
    ELSE IF label \in DOMAIN p.expMap /\ p.expMap[label].isCoordinate
         THEN "free_point_expression" ELSE "free_point_coords"

ParsePoint(p, el) ==
    LET c == IF el.coords.has THEN Dehomogenise(el.coords) ELSE Coord(Num(0), Num(0))
    IN  [type |-> "point", label |-> el.label, visible |-> Visible(el),
         x |-> c.x, y |-> c.y,
         sourceType |-> ClassifyPointSource(p, el.label),
         commandName |-> IF HasCmd(p, el.label) THEN p.cmdMap[el.label].name ELSE ""]

ParseFunction(p, el) ==
    [type |-> "function", label |-> el.label, visible |-> Visible(el),
     exp |-> IF el.label \in DOMAIN p.expMap THEN p.expMap[el.label].exp ELSE ""]

PolygonCmds == {"Polygon", "RigidPolygon", "RegularPolygon", "VectorPolygon"}

\* cmd.outputs.indexOf(label), zero-based, -1 when absent
IndexOf(s, x) == FirstIndex(s, LAMBDA y : y = x) - 1

ParseSegment(p, el) ==
    LET has == HasCmd(p, el.label)
        cmd == IF has THEN p.cmdMap[el.label] ELSE CmdEntry(Command("", <<>>, <<>>))
        poly == has /\ cmd.name \in PolygonCmds /\ Len(cmd.outputs) >= 1
        n == Len(cmd.inputs)
        edgeIndex == IndexOf(cmd.outputs, el.label) - 1
        edge == poly /\ cmd.name # "RegularPolygon" /\ edgeIndex >= 0 /\ n >= 2
        plain == has /\ ~poly /\ n >= 2
        p0 == IF edge THEN NormalizeInputPoint(p, cmd.inputs[(edgeIndex % n) + 1])
              ELSE IF plain THEN NormalizeInputPoint(p, cmd.inputs[1]) ELSE NoInputPoint
        p1 == IF edge THEN NormalizeInputPoint(p, cmd.inputs[((edgeIndex + 1) % n) + 1])
              ELSE IF plain THEN NormalizeInputPoint(p, cmd.inputs[2]) ELSE NoInputPoint
    IN  [type |-> "segment", label |-> el.label, visible |-> Visible(el),
         fromPolygon |-> poly,
         polygonLabel |-> IF poly THEN cmd.outputs[1] ELSE "",
         startLabel |-> p0.label, endLabel |-> p1.label,
         startCoord |-> p0.coord, endCoord |-> p1.coord]

\* extractPolygonVertices.  Vertices named by a label that resolves to a
\* point are preferred (regular-polygon idiom keeps their order); with fewer
\* than three of them the command inputs are used as they stand.
RECURSIVE Uniq(_, _)
Uniq(s, acc) ==
    IF s = <<>> THEN acc
    ELSE Uniq(Tail(s), IF Head(s) = "" \/ Head(s) \in Range(acc) THEN acc
                       ELSE Append(acc, Head(s)))

\* rank of atan2(dy, dx) by half-plane, then by cross product: the order of
\* the angles in (-180, 180] without computing them
AngleHalf(dx, dy) ==
    IF dy < 0 THEN 0 ELSE IF dy = 0 /\ dx >= 0 THEN 1 ELSE IF dy > 0 THEN 2 ELSE 3

AngleLess(ax, ay, bx, by) ==
    \/ AngleHalf(ax, ay) < AngleHalf(bx, by)
    \/ AngleHalf(ax, ay) = AngleHalf(bx, by) /\ ax * by - ay * bx > 0

\* stable insertion of v into the angle-sorted list s (keys relative to the
\* centroid (sx/n, sy/n), scaled by n)
RECURSIVE InsertByAngle(_, _, _, _, _)
InsertByAngle(s, v, sx, sy, n) ==
    IF s = <<>> THEN <<v>>
    ELSE LET h == Head(s)
         IN  IF AngleLess(n * v.coord.x.v - sx, n * v.coord.y.v - sy,
                          n * h.coord.x.v - sx, n * h.coord.y.v - sy)
             THEN <<v>> \o s
             ELSE <<h>> \o InsertByAngle(Tail(s), v, sx, sy, n)

RECURSIVE SortByAngle(_, _, _, _, _)
SortByAngle(s, acc, sx, sy, n) ==
    IF s = <<>> THEN acc
    ELSE SortByAngle(Tail(s), InsertByAngle(acc, Head(s), sx, sy, n), sx, sy, n)

ExtractPolygonVertices(p, cmd) ==
    LET ins == MapSeq(cmd.inputs, LAMBDA i : NormalizeInputPoint(p, i))
        inputVerts == SelectSeq(ins, LAMBDA v : v.label # "" \/ v.coord.has)
        outPoints == SelectSeq(cmd.outputs, LAMBDA o : GetElementType(p, o) = "point")
        merged == MapSeq(inputVerts, LAMBDA v : v.label) \o outPoints
        uniq == Uniq(merged, <<>>)
        byLabel == SelectSeq(
            MapSeq(uniq, LAMBDA l : [label |-> l, coord |-> ResolvePointByLabel(p, l)]),
            LAMBDA v : v.coord.has)
        regularIdiom == cmd.name = "Polygon" /\ Len(cmd.inputs) >= 3
                        /\ \E i \in 1..Len(cmd.inputs) : cmd.inputs[i].isNumber
        allFinite == \A i \in 1..Len(byLabel) : byLabel[i].coord.x.fin /\ byLabel[i].coord.y.fin
        sx == SumSeq(MapSeq(byLabel, LAMBDA v : v.coord.x.v))
        sy == SumSeq(MapSeq(byLabel, LAMBDA v : v.coord.y.v))
    IN  IF regularIdiom /\ Len(byLabel) >= 3 THEN byLabel
        ELSE IF Len(byLabel) >= 3
             THEN (IF allFinite THEN SortByAngle(byLabel, <<>>, sx, sy, Len(byLabel))
                   ELSE byLabel)   \* a NaN key leaves the comparator inconsistent
             ELSE inputVerts

ParsePolygon(p, el) ==
    LET has == HasCmd(p, el.label)
    IN  [type |-> "polygon", label |-> el.label, visible |-> Visible(el),
         commandName |-> IF has THEN p.cmdMap[el.label].name ELSE "",
         hasVertices |-> has,
         vertices |-> IF has THEN ExtractPolygonVertices(p, p.cmdMap[el.label]) ELSE <<>>]

\* vx, vy from <coords>; the <startPoint> sub-node is not part of the
\* modelled documents
ParseVector(p, el) ==
    LET has == HasCmd(p, el.label)
        two == has /\ p.cmdMap[el.label].name = "Vector" /\ Len(p.cmdMap[el.label].inputs) >= 2
        p0 == IF two THEN NormalizeInputPoint(p, p.cmdMap[el.label].inputs[1]) ELSE NoInputPoint
        p1 == IF two THEN NormalizeInputPoint(p, p.cmdMap[el.label].inputs[2]) ELSE NoInputPoint
        vx == IF el.coords.has THEN el.coords.x ELSE NaN
        vy == IF el.coords.has THEN el.coords.y ELSE NaN
        endCoord == IF ~p1.coord.has /\ p0.coord.has /\ vx.fin /\ vy.fin
                    THEN (IF p0.coord.x.fin /\ p0.coord.y.fin
                          THEN Coord(Num(p0.coord.x.v + vx.v), Num(p0.coord.y.v + vy.v))
                          ELSE Coord(NaN, NaN))
                    ELSE p1.coord
    IN  [type |-> "vector", label |-> el.label, visible |-> Visible(el),
         vx |-> vx, vy |-> vy,
         startLabel |-> p0.label, endLabel |-> p1.label,
         startCoord |-> p0.coord, endCoord |-> endCoord]

ParseRay(p, el) ==
    LET has == HasCmd(p, el.label)
        two == has /\ p.cmdMap[el.label].name = "Ray" /\ Len(p.cmdMap[el.label].inputs) >= 2
        p0 == IF two THEN NormalizeInputPoint(p, p.cmdMap[el.label].inputs[1]) ELSE NoInputPoint
        p1 == IF two THEN NormalizeInputPoint(p, p.cmdMap[el.label].inputs[2]) ELSE NoInputPoint
    IN  [type |-> "ray", label |-> el.label, visible |-> Visible(el),
         hasABC |-> el.coords.has, a |-> el.coords.x, b |-> el.coords.y, c |-> el.coords.z,
         startLabel |-> p0.label, throughLabel |-> p1.label,
         startCoord |-> p0.coord, throughCoord |-> p1.coord]

\* getConicMatrixByLabel ("none" is NoMatrix)
GetConicMatrixByLabel(p, label) ==
    IF label \in DOMAIN p.elementMap /\ p.elementMap[label].type = "conic"
    THEN p.elementMap[label].matrix ELSE NoMatrix

\* getLineCoeffsByLabel
NoLineCoeffs == [has |-> FALSE, a |-> NaN, b |-> NaN, c |-> NaN]

GetLineCoeffsByLabel(p, label) ==
    IF label \in DOMAIN p.elementMap
       /\ p.elementMap[label].type \in {"line", "segment", "ray"}
       /\ p.elementMap[label].coords.has
       /\ p.elementMap[label].coords.x.fin /\ p.elementMap[label].coords.y.fin
       /\ p.elementMap[label].coords.z.fin
    THEN [has |-> TRUE, a |-> p.elementMap[label].coords.x,
          b |-> p.elementMap[label].coords.y, c |-> p.elementMap[label].coords.z]
    ELSE NoLineCoeffs

\* the foot x - a d, y - b d for d = (a x + b y + c) / denom
FootAt(point, line, d) ==
    Coord(Num(point.x.v - MulK(line.a.v, d)), Num(point.y.v - MulK(line.b.v, d)))

\* projectPointToLine: denom = a*a + b*b below 1e-12 (or not finite) is
\* "none"; a point with a non-finite coordinate gives a non-finite foot
ProjectPointToLine(point, line) ==
    IF ~point.has \/ ~line.has THEN NoCoord
    ELSE IF ~(line.a.fin /\ line.b.fin) THEN NoCoord
    ELSE IF MulK(line.a.v, line.a.v) + MulK(line.b.v, line.b.v) = 0 THEN NoCoord
    ELSE IF ~(point.x.fin /\ point.y.fin /\ line.c.fin) THEN Coord(NaN, NaN)
    ELSE FootAt(point, line,
                DivK(MulK(line.a.v, point.x.v) + MulK(line.b.v, point.y.v) + line.c.v,
                     MulK(line.a.v, line.a.v) + MulK(line.b.v, line.b.v)))

\* the root the solver takes of qa t^2 + qb t + qc = 0: the double root
\* -qb / (2 qa), or the single root -qc / qb of a linear equation; a test
\* Math.abs(q) > eps is false for a non-finite q
NoRoot == [has |-> FALSE, t |-> NaN]

TangentRoot(qa, qb, qc) ==
    IF qa.fin /\ qa.v # 0
    THEN [has |-> TRUE, t |-> IF qb.fin THEN Num(DivK(-qb.v, 2 * qa.v)) ELSE NaN]
    ELSE IF qb.fin /\ qb.v # 0
         THEN [has |-> TRUE, t |-> IF qc.fin THEN Num(DivK(-qc.v, qb.v)) ELSE NaN]
         ELSE NoRoot

\* the coefficients qa, qb, qc the solver forms after substituting
\* u = m t + k for the eliminated variable: P, Q the square coefficients of
\* the kept and the eliminated variable, R, S their linear coefficients,
\* A3 the mixed entry and A2 the constant entry (millionths)
TangentQa(m, P, Q, A3) ==
    IF P.fin /\ Q.fin /\ A3.fin
    THEN Num(P.v + MulK(Q.v, MulK(m, m)) + MulK(A3.v, m)) ELSE NaN

TangentQb(m, k, Q, A3, R, S) ==
    IF Q.fin /\ A3.fin /\ R.fin /\ S.fin
    THEN Num(2 * MulK(MulK(Q.v, m), k) + MulK(A3.v, k) + 2 * R.v + 2 * MulK(S.v, m))
    ELSE NaN

TangentQc(k, Q, S, A2) ==
    IF Q.fin /\ S.fin /\ A2.fin
    THEN Num(MulK(Q.v, MulK(k, k)) + 2 * MulK(S.v, k) + RoundDiv(A2.v, 1000)) ELSE NaN

\* m t + k
Along(m, k, t) == IF t.fin THEN Num(MulK(m, t.v) + k) ELSE NaN

\* the branch that eliminates y (y = m x + k)
TangentByX(m, k, root) ==
    IF root.has THEN Coord(root.t, Along(m, k, root.t)) ELSE NoCoord

\* the branch that eliminates x (x = m y + k)
TangentByY(m, k, root) ==
    IF root.has THEN Coord(Along(m, k, root.t), root.t) ELSE NoCoord

SolveEliminatingY(m, k, M) ==
    TangentByX(m, k, TangentRoot(TangentQa(m, M.A0, M.A1, M.A3),
                                 TangentQb(m, k, M.A1, M.A3, M.A4, M.A5),
                                 TangentQc(k, M.A1, M.A5, M.A2)))

SolveEliminatingX(m, k, M) ==
    TangentByY(m, k, TangentRoot(TangentQa(m, M.A1, M.A0, M.A3),
                                 TangentQb(m, k, M.A0, M.A3, M.A5, M.A4),
                                 TangentQc(k, M.A0, M.A4, M.A2)))

\* solveTangentPoint(line, matrix): "none" is NoCoord
SolveTangentPoint(a, b, c, matrix) ==
    IF ~matrix.has \/ ~(a.fin /\ b.fin /\ c.fin) THEN NoCoord
    ELSE IF b.v # 0 THEN SolveEliminatingY(DivK(-a.v, b.v), DivK(-c.v, b.v), matrix)
    ELSE IF a.v # 0 THEN SolveEliminatingX(DivK(-b.v, a.v), DivK(-c.v, a.v), matrix)
    ELSE NoCoord

\* the Tangent and OrthogonalLine enrichments of parseLine
\* index of the first input naming a conic element, 0 when none
ConicInputIndex(p, cmd) ==
    FirstIndex(cmd.inputs, LAMBDA i : GetElementType(p, i.text) = "conic")

\* index of the first input that is a coordinate literal or names a point
PointInputIndex(p, cmd) ==
    FirstIndex(cmd.inputs, LAMBDA i : i.isCoordinate \/ GetElementType(p, i.text) = "point")

\* index of the first input other than the point input
TargetInputIndex(cmd, pointIdx) ==
    IF Len(cmd.inputs) >= 1 /\ pointIdx # 1 THEN 1
    ELSE IF Len(cmd.inputs) >= 2 THEN 2 ELSE 0

InputCoordAt(p, inputs, i) ==
    IF i = 0 THEN NoCoord
    ELSE IF inputs[i].isCoordinate THEN Coord(Num(inputs[i].x), Num(inputs[i].y))
    ELSE ResolvePointByLabel(p, inputs[i].text)

TangentPointAt(p, el, cmd, conicIdx) ==
    IF cmd.name = "Tangent" /\ conicIdx # 0
    THEN SolveTangentPoint(el.coords.x, el.coords.y, el.coords.z,
                           GetConicMatrixByLabel(p, cmd.inputs[conicIdx].text))
    ELSE NoCoord

OrthogonalCmds == {"OrthogonalLine", "PerpendicularLine"}

OrthogonalFootAt(p, cmd, from, targetIdx) ==
    IF cmd.name \in OrthogonalCmds /\ from.has /\ targetIdx # 0
    THEN IF cmd.inputs[targetIdx].text # ""
         THEN ProjectPointToLine(from, GetLineCoeffsByLabel(p, cmd.inputs[targetIdx].text))
         ELSE NoCoord
    ELSE NoCoord

OrthogonalFoot(p, cmd) ==
    OrthogonalFootAt(p, cmd, InputCoordAt(p, cmd.inputs, PointInputIndex(p, cmd)),
                     TargetInputIndex(cmd, PointInputIndex(p, cmd)))

\* parseLine: two-point resolution for the Line command, else two points
\* synthesized from the general form a x + b y + c = 0; then the Tangent,
\* AngularBisector and OrthogonalLine enrichments.
ParseLine(p, el) ==
    LET has == HasCmd(p, el.label)
        cmd == IF has THEN p.cmdMap[el.label] ELSE CmdEntry(Command("", <<>>, <<>>))
        two == has /\ cmd.name = "Line" /\ Len(cmd.inputs) >= 2
        p0 == IF two THEN NormalizeInputPoint(p, cmd.inputs[1]) ELSE NoInputPoint
        p1 == IF two THEN NormalizeInputPoint(p, cmd.inputs[2]) ELSE NoInputPoint
        a == el.coords.x
        b == el.coords.y
        c == el.coords.z
        synth == (~p0.coord.has \/ ~p1.coord.has) /\ el.coords.has /\ a.fin /\ b.fin /\ c.fin
        s1 == IF synth /\ b.v # 0 THEN Coord(Num(0), NumDiv(Num(-c.v), b))
              ELSE IF synth /\ a.v # 0 THEN Coord(NumDiv(Num(-c.v), a), Num(0))
              ELSE p0.coord
        s2 == IF synth /\ b.v # 0 THEN Coord(Num(1000), NumDiv(Num(-(a.v + c.v)), b))
              ELSE IF synth /\ a.v # 0 THEN Coord(NumDiv(Num(-c.v), a), Num(1000))
              ELSE p1.coord
        bis == has /\ cmd.name = "AngularBisector" /\ Len(cmd.inputs) >= 3
    IN  [type |-> "line", label |-> el.label, visible |-> Visible(el),
         commandName |-> cmd.name,
         hasABC |-> el.coords.has, a |-> a, b |-> b, c |-> c,
         point1Label |-> p0.label, point2Label |-> p1.label,
         point1Coord |-> s1, point2Coord |-> s2,
         bisectorPoint1Label |-> IF bis THEN NormalizeInputPoint(p, cmd.inputs[1]).label ELSE "",
         bisectorVertexLabel |-> IF bis THEN NormalizeInputPoint(p, cmd.inputs[2]).label ELSE "",
         bisectorPoint2Label |-> IF bis THEN NormalizeInputPoint(p, cmd.inputs[3]).label ELSE "",
         throughPointCoord |->
             IF cmd.name = "Tangent"
             THEN InputCoordAt(p, cmd.inputs, PointInputIndex(p, cmd)) ELSE NoCoord,
         tangentPointCoord |-> TangentPointAt(p, el, cmd, ConicInputIndex(p, cmd)),
         orthogonalFromPointCoord |->
             IF cmd.name \in OrthogonalCmds
             THEN InputCoordAt(p, cmd.inputs, PointInputIndex(p, cmd)) ELSE NoCoord,
         orthogonalFootCoord |-> OrthogonalFoot(p, cmd),
         intersectionPointCoord |-> OrthogonalFoot(p, cmd)]

\* parseAngle.  valueDeg is the <value> of the element converted to degrees
\* (has = FALSE when the attribute is not a finite number).
NoTriple ==
    [point1Label |-> "", vertexLabel |-> "", point2Label |-> "",
     point1Coord |-> NoCoord, vertexCoord |-> NoCoord, point2Coord |-> NoCoord]

Triple(a, v, b) ==
    [point1Label |-> a.label, vertexLabel |-> v.label, point2Label |-> b.label,
     point1Coord |-> a.coord, vertexCoord |-> v.coord, point2Coord |-> b.coord]

\* the vertex at position idx of the list with its two neighbours
TripleAt(verts, idx) ==
    LET n == Len(verts)
        i == IF n > 0 THEN idx % n ELSE 0
    IN  IF n >= 3
        THEN Triple(verts[((i - 1 + n) % n) + 1], verts[i + 1], verts[((i + 1) % n) + 1])
        ELSE NoTriple

\* InteriorAngles: the vertices of the polygon command named by the input
InteriorAngleTriple(p, cmd, label) ==
    TripleAt(IF HasCmd(p, cmd.inputs[1].text)
             THEN ExtractPolygonVertices(p, p.cmdMap[cmd.inputs[1].text]) ELSE <<>>,
             IndexOf(cmd.outputs, label))

\* the three points of the angle, by the form of its command
AngleTriple(p, cmd, label) ==
    IF cmd.name = "Angle" /\ Len(cmd.inputs) >= 3
    THEN Triple(NormalizeInputPoint(p, cmd.inputs[1]),
                NormalizeInputPoint(p, cmd.inputs[2]),
                NormalizeInputPoint(p, cmd.inputs[3]))
    ELSE IF cmd.name = "InteriorAngles" /\ Len(cmd.inputs) >= 1
         THEN InteriorAngleTriple(p, cmd, label)
         ELSE NoTriple

AngleEntity(el, cmd, t) ==
    LET byLines == cmd.name = "Angle" /\ Len(cmd.inputs) = 2
    IN  [type |-> "angle", label |-> el.label, visible |-> Visible(el),
         hasValue |-> el.val.fin, valueDeg |-> el.val,
         commandName |-> cmd.name,
         line1Label |-> IF byLines THEN cmd.inputs[1].text ELSE "",
         line2Label |-> IF byLines THEN cmd.inputs[2].text ELSE "",
         point1Label |-> t.point1Label, vertexLabel |-> t.vertexLabel,
         point2Label |-> t.point2Label,
         point1Coord |-> t.point1Coord, vertexCoord |-> t.vertexCoord,
         point2Coord |-> t.point2Coord]

\* the command that produced the label, or a command without name or inputs
CmdOf(p, label) ==
    IF HasCmd(p, label) THEN p.cmdMap[label] ELSE CmdEntry(Command("", <<>>, <<>>))

ParseAngle(p, el) ==
    AngleEntity(el, CmdOf(p, el.label), AngleTriple(p, CmdOf(p, el.label), el.label))

NormalizeConicTypeByCommand(commandName) ==
    CASE commandName \in {"Circle", "Incircle", "Circumcircle", "Excircle"} -> "circle"
      [] commandName = "Ellipse" -> "ellipse"
      [] commandName = "Hyperbola" -> "hyperbola"
      [] commandName = "Parabola" -> "parabola"
      [] commandName = "" -> "conic"
      [] OTHER -> commandName

\* inferConicTypeFromMatrix: disc = B*B - 4*A*C with B read from A3.
\* Entries are in thousandths, so disc is a multiple of 1e-6 and
\* |disc| <= eps = 1e-10 is disc = 0; a comparison with a non-finite operand
\* is false.
InferConicTypeFromMatrix(matrix) ==
    LET A == matrix.A0
        C == matrix.A1
        B == matrix.A3
        fin == A.fin /\ C.fin /\ B.fin
        disc == B.v * B.v - 4 * A.v * C.v
    IN  IF ~fin THEN "ellipse"
        ELSE IF disc = 0 THEN "parabola"
        ELSE IF disc > 0 THEN "hyperbola"
        ELSE IF B.v = 0 /\ A.v = C.v THEN "circle"
        ELSE "ellipse"

\* inferConicTypeFromEquation over the equation texts of the modelled
\* documents ("" stands for null)
InferConicTypeFromEquation(eq) ==
    CASE eq = "x^2+y^2=4" -> "circle"
      [] eq = "x^2/4+y^2=1" -> "ellipse"
      [] eq = "x^2-y^2=1" -> "hyperbola"
      [] eq = "y^2=4x" -> "parabola"
      [] eq = "2x^2+2y^2=8" -> "ellipse"
      [] eq = "3x^2-y^2=3" -> "hyperbola"
      [] eq = "3x^2+4y^2=12" -> "ellipse"
      [] OTHER -> ""

\* first non-empty text of a list, d when none (the || chain)
RECURSIVE FirstNonEmpty(_, _)
FirstNonEmpty(s, d) ==
    IF s = <<>> THEN d ELSE IF Head(s) # "" THEN Head(s) ELSE FirstNonEmpty(Tail(s), d)

NormalizeConic(res) ==
    [canonicalType |->
        FirstNonEmpty(<<res.conicType, InferConicTypeFromEquation(res.equation),
                        IF res.matrix.has THEN InferConicTypeFromMatrix(res.matrix) ELSE "">>,
                      "conic"),
     provenance |->
        (IF res.commandName # "" THEN <<"command">> ELSE <<>>)
        \o (IF res.equation # "" THEN <<"expression">> ELSE <<>>)
        \o (IF res.matrix.has THEN <<"element_matrix">> ELSE <<>>)]

\* the coordinate of the i-th input when it is a literal coordinate
InputCoord(ins, i) ==
    IF Len(ins) >= i /\ ins[i].isCoordinate
    THEN Coord(Num(ins[i].x), Num(ins[i].y)) ELSE NoCoord

\* the text of the i-th input when it is not a literal coordinate
InputLabel(ins, i) ==
    IF Len(ins) >= i /\ ~ins[i].isCoordinate THEN ins[i].text ELSE ""

\* parseConic: the inputs of Circle, of Ellipse and Hyperbola (two foci, then
\* the axis length or a point), and of Parabola (focus, directrix text)
ParseConic(p, el) ==
    LET has == HasCmd(p, el.label)
        cmd == IF has THEN p.cmdMap[el.label] ELSE CmdEntry(Command("", <<>>, <<>>))
        ins == cmd.inputs
        circle == has /\ cmd.name = "Circle"
        foci == has /\ cmd.name \in {"Ellipse", "Hyperbola"}
        parabola == has /\ cmd.name = "Parabola"
        in0 == circle /\ Len(ins) >= 1
        in1 == circle /\ Len(ins) >= 2
        in2 == foci /\ Len(ins) >= 3
        base == [type |-> "conic", label |-> el.label, visible |-> Visible(el),
                 equation |-> IF el.label \in DOMAIN p.expMap THEN p.expMap[el.label].exp ELSE "",
                 matrix |-> el.matrix,
                 commandName |-> cmd.name,
                 conicType |-> IF has THEN NormalizeConicTypeByCommand(cmd.name)
                               ELSE IF el.matrix.has THEN InferConicTypeFromMatrix(el.matrix)
                               ELSE "",
                 centerCoord |-> IF in0 /\ ins[1].isCoordinate
                                 THEN Coord(Num(ins[1].x), Num(ins[1].y)) ELSE NoCoord,
                 centerLabel |-> IF in0 /\ ~ins[1].isCoordinate THEN ins[1].text ELSE "",
                 hasRadius |-> in1 /\ ins[2].isNumber,
                 radius |-> IF in1 /\ ins[2].isNumber THEN Num(ins[2].x) ELSE NaN,
                 passCoord |-> IF in1 /\ ~ins[2].isNumber THEN InputCoord(ins, 2)
                               ELSE IF in2 /\ ~ins[3].isNumber THEN InputCoord(ins, 3)
                               ELSE NoCoord,
                 passLabel |-> IF in1 /\ ~ins[2].isNumber THEN InputLabel(ins, 2)
                               ELSE IF in2 /\ ~ins[3].isNumber THEN InputLabel(ins, 3)
                               ELSE "",
                 focus1Coord |-> IF foci THEN InputCoord(ins, 1) ELSE NoCoord,
                 focus1Label |-> IF foci THEN InputLabel(ins, 1) ELSE "",
                 focus2Coord |-> IF foci THEN InputCoord(ins, 2) ELSE NoCoord,
                 focus2Label |-> IF foci THEN InputLabel(ins, 2) ELSE "",
                 majorAxisLength |-> IF in2 /\ ins[3].isNumber THEN Num(ins[3].x) ELSE NaN,
                 focusCoord |-> IF parabola THEN InputCoord(ins, 1) ELSE NoCoord,
                 focusLabel |-> IF parabola THEN InputLabel(ins, 1) ELSE "",
                 directrix |-> IF parabola /\ Len(ins) >= 2 THEN ins[2].text ELSE ""]
        normalized == NormalizeConic(base)
    IN  [type |-> base.type, label |-> base.label, visible |-> base.visible,
         equation |-> base.equation, matrix |-> base.matrix,
         commandName |-> base.commandName,
         conicType |-> IF base.conicType # "" THEN base.conicType
                       ELSE normalized.canonicalType,
         centerCoord |-> base.centerCoord, centerLabel |-> base.centerLabel,
         hasRadius |-> base.hasRadius, radius |-> base.radius,
         passCoord |-> base.passCoord, passLabel |-> base.passLabel,
         focus1Coord |-> base.focus1Coord, focus1Label |-> base.focus1Label,
         focus2Coord |-> base.focus2Coord, focus2Label |-> base.focus2Label,
         majorAxisLength |-> base.majorAxisLength,
         focusCoord |-> base.focusCoord, focusLabel |-> base.focusLabel,
         directrix |-> base.directrix,
         provenance |-> normalized.provenance]

\* parseConicPart.  pts holds the normalized input points the command form
\* records: point1, point2 (Semicircle); center, start, end (CircleSector,
\* CircleArc); p1, p2, p3 (CircumcircleArc, CircumcircleSector).
ParseConicPart(p, el) ==
    LET has == HasCmd(p, el.label)
        cmd == IF has THEN p.cmdMap[el.label] ELSE CmdEntry(Command("", <<>>, <<>>))
        n == Len(cmd.inputs)
        three == cmd.name \in {"CircleSector", "CircleArc", "CircumcircleArc",
                               "CircumcircleSector"} /\ n >= 3
        two == cmd.name = "Semicircle" /\ n >= 2
    IN  [type |-> "conicpart", label |-> el.label, visible |-> Visible(el),
         matrix |-> el.matrix, commandName |-> cmd.name,
         pts |-> IF three THEN <<NormalizeInputPoint(p, cmd.inputs[1]),
                                 NormalizeInputPoint(p, cmd.inputs[2]),
                                 NormalizeInputPoint(p, cmd.inputs[3])>>
                 ELSE IF two THEN <<NormalizeInputPoint(p, cmd.inputs[1]),
                                    NormalizeInputPoint(p, cmd.inputs[2]), NoInputPoint>>
                 ELSE <<NoInputPoint, NoInputPoint, NoInputPoint>>]

\* toCoord: null unless both coordinates are finite (the rounding to eight
\* decimals keeps a value in thousandths)
ToCoord(coord) ==
    IF coord.has /\ coord.x.fin /\ coord.y.fin THEN coord ELSE NoCoord

\* the entry pushed by the default branch of parse(): the raw node is kept
OtherEntity(el) ==
    [type |-> el.type, label |-> el.label, visible |-> Visible(el), rawXML |-> el]

EmptyResult ==
    [points |-> <<>>, functions |-> <<>>, segments |-> <<>>, polygons |-> <<>>,
     vectors |-> <<>>, lines |-> <<>>, rays |-> <<>>, angles |-> <<>>,
     conics |-> <<>>, conicparts |-> <<>>, others |-> <<>>]

\* the switch of parse() for one element node
PushElement(p, result, el) ==
    CASE el.type = "point" ->
            [result EXCEPT !.points = Append(@, ParsePoint(p, el))]
      [] el.type = "function" ->
            [result EXCEPT !.functions = Append(@, ParseFunction(p, el))]
      [] el.type = "segment" ->
            [result EXCEPT !.segments = Append(@, ParseSegment(p, el))]
      [] el.type = "polygon" ->
            [result EXCEPT !.polygons = Append(@, ParsePolygon(p, el))]
      [] el.type = "vector" ->
            [result EXCEPT !.vectors = Append(@, ParseVector(p, el))]
      [] el.type = "line" ->
            [result EXCEPT !.lines = Append(@, ParseLine(p, el))]
      [] el.type = "ray" ->
            [result EXCEPT !.rays = Append(@, ParseRay(p, el))]
      [] el.type = "angle" ->
            [result EXCEPT !.angles = Append(@, ParseAngle(p, el))]
      [] el.type = "conic" ->
            [result EXCEPT !.conics = Append(@, ParseConic(p, el))]
      [] el.type = "conicpart" ->
            [result EXCEPT !.conicparts = Append(@, ParseConicPart(p, el))]
      [] OTHER ->
            [result EXCEPT !.others = Append(@, OtherEntity(el))]

\* a reader that skips the elements of unrecognised types
RECURSIVE ParseRecognisedElements(_, _, _)
ParseRecognisedElements(p, elements, result) ==
    IF elements = <<>> THEN result
    ELSE ParseRecognisedElements(p, Tail(elements),
             IF Head(elements).type \in RecognisedTypes
             THEN PushElement(p, result, Head(elements)) ELSE result)

RECURSIVE ParseElements(_, _, _)
ParseElements(p, elements, result) ==
    IF elements = <<>> THEN result
    ELSE ParseElements(p, Tail(elements), PushElement(p, result, Head(elements)))

\* buildSemantics: one relation per line, and the derived points
LineRelation(line) ==
    [label |-> line.label, commandName |-> line.commandName,
     through |-> [p1Label |-> line.point1Label, p1Coord |-> ToCoord(line.point1Coord),
                  p2Label |-> line.point2Label, p2Coord |-> ToCoord(line.point2Coord)],
     tangent |-> [throughPointCoord |-> ToCoord(line.throughPointCoord),
                  tangentPointCoord |-> ToCoord(line.tangentPointCoord)],
     orthogonal |-> [fromPointCoord |-> ToCoord(line.orthogonalFromPointCoord),
                     footCoord |-> ToCoord(line.orthogonalFootCoord),
                     intersectionPointCoord |-> ToCoord(line.intersectionPointCoord)],
     angularBisector |-> [point1Label |-> line.bisectorPoint1Label,
                          vertexLabel |-> line.bisectorVertexLabel,
                          point2Label |-> line.bisectorPoint2Label]]

DerivedPointsOf(rel) ==
    (IF rel.tangent.tangentPointCoord.has
     THEN <<[label |-> rel.label, kind |-> "tangent_point",
             coord |-> rel.tangent.tangentPointCoord]>> ELSE <<>>)
    \o (IF rel.orthogonal.footCoord.has
        THEN <<[label |-> rel.label, kind |-> "orthogonal_foot",
                coord |-> rel.orthogonal.footCoord]>> ELSE <<>>)

BuildSemantics(result) ==
    LET rels == MapSeq(result.lines, LineRelation)
    IN  [lineRelations |-> rels,
         derivedPoints |-> Flatten(MapSeq(rels, DerivedPointsOf))]

\* parse(): without a <construction> node the returned value has no
\* structured model and no semantics
\* the value parse() returns for the filled buckets
ParseResult(result, total) ==
    [hasStructured |-> TRUE, structured |-> result, semantics |-> BuildSemantics(result),
     total |-> total]

Parse(p) ==
    IF ~p.doc.hasConstruction
    THEN [hasStructured |-> FALSE, structured |-> EmptyResult,
          semantics |-> [lineRelations |-> <<>>, derivedPoints |-> <<>>],
          total |-> 0]
    ELSE ParseResult(ParseElements(WithIndexes(p), p.doc.elements, EmptyResult),
                     Len(p.doc.elements))

----------------------------------------------------------------------------
(* TikZGenerator: instance, bounds, point references *)

\* an option the caller may leave out
Absent == [has |-> FALSE, v |-> 0]
Given(v) == [has |-> TRUE, v |-> v]

\* an own property of the options object whose value is undefined or null
Undefined == [has |-> TRUE, v |-> 0, nullish |-> TRUE]

IsNullish(o) == "nullish" \in DOMAIN o

\* options.k ?? default
OrDefault(o, default) == IF o.has /\ ~IsNullish(o) THEN Num(o.v) ELSE Num(default)

\* the options object handed to the constructor.  outputMode "" is a missing
\* (or empty) mode; the flags are "absent", "true" or "false"; the four
\* bounds are Absent, Given(thousandths) or Undefined.
RawOptions(outputMode, axis, definePointCoordinates, smartBounds, strictStatic, drawDerivedPoints, xmin, xmax, ymin, ymax) ==
    [outputMode |-> outputMode, axis |-> axis,
     definePointCoordinates |-> definePointCoordinates, smartBounds |-> smartBounds,
     strictStatic |-> strictStatic, semanticFirst |-> "absent",
     drawDerivedPoints |-> drawDerivedPoints,
     xmin |-> xmin, xmax |-> xmax, ymin |-> ymin, ymax |-> ymax]

NoBounds == [has |-> FALSE, xmin |-> NaN, xmax |-> NaN, ymin |-> NaN, ymax |-> NaN]

\* constructor: defaults and the record of which bounds were supplied
Constructor(options) ==
    [options |->
        [axis |-> options.axis # "false",
         xmin |-> OrDefault(options.xmin, -10000),
         xmax |-> OrDefault(options.xmax, 10000),
         ymin |-> OrDefault(options.ymin, -10000),
         ymax |-> OrDefault(options.ymax, 10000),
         semanticFirst |-> options.semanticFirst # "false",
         strictStatic |-> options.strictStatic # "false",
         definePointCoordinates |-> options.definePointCoordinates # "false",
         drawDerivedPoints |-> options.drawDerivedPoints = "true",
         outputMode |-> IF options.outputMode # "" THEN options.outputMode ELSE "standalone",
         smartBounds |-> options.smartBounds # "false"],
     boundsOverrides |->
        [xmin |-> options.xmin.has, xmax |-> options.xmax.has,
         ymin |-> options.ymin.has, ymax |-> options.ymax.has],
     bounds |-> NoBounds,
     pointIndex |-> <<>>,
     scenePoints |-> <<>>,
     definedCoordLabels |-> {}]

OptionBounds(g) ==
    [has |-> TRUE, xmin |-> g.options.xmin, xmax |-> g.options.xmax,
     ymin |-> g.options.ymin, ymax |-> g.options.ymax]

GetBounds(g) == IF g.bounds.has THEN g.bounds ELSE OptionBounds(g)

SetMin(S) == CHOOSE x \in S : \A y \in S : x <= y
SetMax(S) == CHOOSE x \in S : \A y \in S : x >= y

\* (edge + sign * max(0.8, 0.2 * d)).toFixed(2), computed on fifths of a
\* thousandth so that the rounding is applied once
PaddedEdge(edge, d, sign) ==
    LET pad5 == Max2(4000, d)
    IN  Num(10 * RoundDiv(5 * edge + sign * pad5, 50))

\* bounds taken over every point with finite coordinates, hidden ones included
ComputeBoundsOfAllPoints(g, parsedData) ==
    LET points == parsedData.structured.points
        used == SelectSeq(points, LAMBDA q : q.x.fin /\ q.y.fin)
        xs == {used[i].x.v : i \in 1..Len(used)}
        ys == {used[i].y.v : i \in 1..Len(used)}
        dx == IF SetMax(xs) = SetMin(xs) THEN 2000 ELSE SetMax(xs) - SetMin(xs)
        dy == IF SetMax(ys) = SetMin(ys) THEN 2000 ELSE SetMax(ys) - SetMin(ys)
        ov == g.boundsOverrides
    IN  IF ~g.options.smartBounds \/ used = <<>> THEN OptionBounds(g)
        ELSE [has |-> TRUE,
              xmin |-> IF ov.xmin THEN g.options.xmin ELSE PaddedEdge(SetMin(xs), dx, -1),
              xmax |-> IF ov.xmax THEN g.options.xmax ELSE PaddedEdge(SetMax(xs), dx, 1),
              ymin |-> IF ov.ymin THEN g.options.ymin ELSE PaddedEdge(SetMin(ys), dy, -1),
              ymax |-> IF ov.ymax THEN g.options.ymax ELSE PaddedEdge(SetMax(ys), dy, 1)]

\* computeSmartBounds: extent of the visible points with finite coordinates,
\* padded; the option bounds when smart bounds are off or no such point
\* exists; explicitly supplied bounds win
ComputeSmartBounds(g, parsedData) ==
    LET points == parsedData.structured.points
        used == SelectSeq(points, LAMBDA q : q.visible /\ q.x.fin /\ q.y.fin)
        xs == {used[i].x.v : i \in 1..Len(used)}
        ys == {used[i].y.v : i \in 1..Len(used)}
        dx0 == SetMax(xs) - SetMin(xs)
        dy0 == SetMax(ys) - SetMin(ys)
        dx == IF dx0 = 0 THEN 2000 ELSE dx0
        dy == IF dy0 = 0 THEN 2000 ELSE dy0
        ov == g.boundsOverrides
    IN  IF ~g.options.smartBounds \/ used = <<>> THEN OptionBounds(g)
        ELSE [has |-> TRUE,
              xmin |-> IF ov.xmin THEN g.options.xmin ELSE PaddedEdge(SetMin(xs), dx, -1),
              xmax |-> IF ov.xmax THEN g.options.xmax ELSE PaddedEdge(SetMax(xs), dx, 1),
              ymin |-> IF ov.ymin THEN g.options.ymin ELSE PaddedEdge(SetMin(ys), dy, -1),
              ymax |-> IF ov.ymax THEN g.options.ymax ELSE PaddedEdge(SetMax(ys), dy, 1)]

\* the point index keeps its keys in insertion order; a repeated label
\* replaces the coordinates in place
IndexHas(index, label) == \E i \in 1..Len(index) : index[i].label = label

IndexGet(index, label) ==
    LET i == FirstIndex(index, LAMBDA e : e.label = label)
    IN  Coord(index[i].x, index[i].y)

IndexPut(index, e) ==
    IF IndexHas(index, e.label)
    THEN [i \in 1..Len(index) |-> IF index[i].label = e.label THEN e ELSE index[i]]
    ELSE Append(index, e)

RECURSIVE BuildPointIndexFold(_, _)
BuildPointIndexFold(points, index) ==
    IF points = <<>> THEN index
    ELSE LET q == Head(points)
         IN  BuildPointIndexFold(Tail(points),
                IF q.label # "" /\ q.x.fin /\ q.y.fin
                THEN IndexPut(index, [label |-> q.label, x |-> q.x, y |-> q.y])
                ELSE index)

BuildPointIndex(points) == BuildPointIndexFold(points, <<>>)

\* /^[A-Za-z][A-Za-z0-9_]*$/ over the labels of the modelled documents: the
\* labels that do not match are the ones listed
IsValidTikzCoordName(name) == name \notin {"", "A'", "2P"}

\* the labels generatePointCoordinateDefs defines
CoordDefPoints(points) ==
    SelectSeq(points, LAMBDA q : q.label # "" /\ IsValidTikzCoordName(q.label)
                                 /\ q.x.fin /\ q.y.fin)

\* resolveLabelByCoord: the first label at the least distance, when that
\* distance is at most 5e-3 ("" stands for null)
ResolveLabelByCoord(g, coord) ==
    IF ~coord.has \/ ~coord.x.fin \/ ~coord.y.fin \/ g.pointIndex = <<>> THEN ""
    ELSE LET D2(e) == (e.x.v - coord.x.v) * (e.x.v - coord.x.v)
                      + (e.y.v - coord.y.v) * (e.y.v - coord.y.v)
             least == SetMin({D2(g.pointIndex[i]) : i \in 1..Len(g.pointIndex)})
             best == FirstIndex(g.pointIndex, LAMBDA e : D2(e) = least)
         IN  IF least <= 25 THEN g.pointIndex[best].label ELSE ""

\* a printed point reference: (label), or (x,y) with two decimals.  The
\* text "NaN" is printed for a coordinate that is not finite.
LabelRef(label) == [label |-> label, x |-> Num(0), y |-> Num(0)]
CoordRef(x, y) == [label |-> "", x |-> ToFixed2(x), y |-> ToFixed2(y)]

PointRef(g, coord, preferredLabel) ==
    LET inferred == ResolveLabelByCoord(g, coord)
    IN  IF g.options.definePointCoordinates /\ preferredLabel # ""
           /\ IsValidTikzCoordName(preferredLabel)
           /\ IndexHas(g.pointIndex, preferredLabel)
           /\ preferredLabel \in g.definedCoordLabels
        THEN LabelRef(preferredLabel)
        ELSE IF g.options.definePointCoordinates /\ inferred # ""
                /\ IsValidTikzCoordName(inferred) /\ inferred \in g.definedCoordLabels
             THEN LabelRef(inferred)
             ELSE CoordRef(coord.x, coord.y)

\* one emitted line
Stmt(cat, kind, label, refs, nums) ==
    [cat |-> cat, kind |-> kind, label |-> label, refs |-> refs, nums |-> nums]

Line(cat, kind) == Stmt(cat, kind, "", <<>>, <<>>)

\* the header and the imports written by generatePreamble
PreambleLines ==
    <<Line("preamble", "comment"), Line("preamble", "documentclass"),
      Line("preamble", "usepackage"), Line("preamble", "usetikzlibrary"),
      Line("preamble", "usepackage"), Line("preamble", "begin-document")>>

\* a generator that writes the header in every mode
GeneratePreambleAlways(g) == PreambleLines

GeneratePreamble(g) ==
    IF g.options.outputMode # "standalone" THEN <<>> ELSE PreambleLines

GenerateBeginTikz(g) ==
    LET b == GetBounds(g)
    IN  (IF g.options.outputMode = "figure"
         THEN <<Line("begin", "begin-figure"), Line("begin", "centering")>> ELSE <<>>)
        \o <<Line("begin", "begin-tikzpicture")>>
        \o (IF g.options.axis
            THEN <<Line("begin", "comment"),
                   Stmt("begin", "axis", "x", <<>>, <<b.xmin, b.xmax>>),
                   Stmt("begin", "axis", "y", <<>>, <<b.ymin, b.ymax>>)>>
            ELSE <<>>)

GenerateEndTikz(g) ==
    <<Line("end", "end-tikzpicture")>>
    \o (IF g.options.outputMode = "figure"
        THEN <<Line("end", "caption"), Line("end", "label"), Line("end", "end-figure")>>
        ELSE IF g.options.outputMode = "standalone"
             THEN <<Line("end", "end-document")>> ELSE <<>>)

GeneratePointCoordinateDefs(g, points) ==
    LET defs == CoordDefPoints(points)
    IN  IF defs = <<>> THEN <<>>
        ELSE <<Line("coords", "header")>>
             \o MapSeq(defs, LAMBDA q :
                    Stmt("coords", "coordinate", q.label, <<CoordRef(q.x, q.y)>>, <<>>))

----------------------------------------------------------------------------
(* TikZGenerator: functions, conics, arcs *)

\* wrapWithBoundsClip: nothing for empty content, else a clipped scope
WrapWithBoundsClip(g, cat, content) ==
    LET b == GetBounds(g)
    IN  IF content = <<>> THEN <<>>
        ELSE <<Line(cat, "begin-scope"), Line(cat, "comment"),
               Stmt(cat, "clip", "", <<>>, <<b.xmin, b.ymin, b.xmax, b.ymax>>)>>
             \o content \o <<Line(cat, "end-scope")>>

\* hasPotentialDiscontinuity over the expression texts of the modelled
\* documents: a division or one of tan, cot, sec, csc, ln, log, sqrt, asin, acos
\* the expression after the head "name(x) =" is stripped, over the
\* expression texts of the modelled documents
StripHead(exp) ==
    CASE exp = "f(x) = 1/x" -> "1/x"
      [] exp = "f1(x) = x^2" -> "x^2"
      [] exp = "g(x) = sqrt(x)" -> "sqrt(x)"
      [] exp = "h(x) = cot(x)" -> "cot(x)"
      [] exp = "k(x) = 1/" -> "1/"
      [] OTHER -> exp

\* hasPotentialDiscontinuity: a division sign or one of the listed functions
HasPotentialDiscontinuity(expr) == expr \in {"1/x", "sqrt(x)", "cot(x)", "1/"}

\* buildExprEvaluator: null when the translated text is not an expression
HasEvaluator(expr) == expr # "" /\ expr # "1/"

\* the test ok of one sample: evalFn(x) is finite and within [yMin, yMax].
\* 1/0 is Infinity, sqrt of a negative number is NaN, and cot is not a
\* function the evaluator knows (the call throws).  The comparisons are
\* exact: 1/x <= y as 1 <= x y for x > 0, sqrt(x) <= y as x <= y^2.
SampleOk(expr, x, useYLimit, yMin, yMax) ==
    CASE expr = "1/x" ->
            /\ x # 0
            /\ useYLimit =>
                 IF x > 0 THEN yMin * x <= 1000000 /\ 1000000 <= yMax * x
                 ELSE yMin * x >= 1000000 /\ 1000000 >= yMax * x
      [] expr = "sqrt(x)" ->
            /\ x >= 0
            /\ useYLimit =>
                 /\ yMax >= 0 /\ x * 1000 <= yMax * yMax
                 /\ yMin <= 0 \/ x * 1000 >= yMin * yMin
      [] expr = "x^2" -> (useYLimit => yMin * 1000 <= x * x /\ x * x <= yMax * 1000)
      [] OTHER -> FALSE

Samples == 240

\* x0 + step * i for step = (x1 - x0) / samples
SampleX(x0, x1, i) == x0 + RoundDiv((x1 - x0) * i, Samples)

\* a run [runStart, end] is kept when end - runStart >= minSpan, for
\* minSpan = max(1.5 step, 0.01 (x1 - x0)); its ends are rounded to two decimals
CloseRun(c, segments, runStart, end) ==
    IF runStart.has
       /\ (end - runStart.v) * 10 * Samples
              >= Max2(15 * (c.x1 - c.x0), ((c.x1 - c.x0) * Samples) \div 10)
    THEN Append(segments, [start |-> ToFixed2(Num(runStart.v)), end |-> ToFixed2(Num(end))])
    ELSE segments

\* the sampling loop.  ok[i] is the test of sample i; a run starts at a good
\* sample that is the first sample or follows a bad one, and ends at the last
\* good sample before the next bad one (prevX), or at x1 when it is still
\* open after the last sample.
OkAt(c) ==
    [i \in 0..Samples |->
        SampleOk(c.expr, SampleX(c.x0, c.x1, i), c.useYLimit, c.yMin, c.yMax)]

RunStarts(ok) == {i \in 0..Samples : ok[i] /\ (i = 0 \/ ~ok[i - 1])}

RunLast(ok, i) ==
    CHOOSE j \in i..Samples :
        /\ \A k \in i..j : ok[k]
        /\ j = Samples \/ ~ok[j + 1]

RunEnd(c, last) == IF last = Samples THEN c.x1 ELSE SampleX(c.x0, c.x1, last)

RECURSIVE RunsFrom(_, _, _, _)
RunsFrom(c, ok, starts, segments) ==
    IF starts = {} THEN segments
    ELSE RunsFrom(c, ok, starts \ {SetMin(starts)},
                  CloseRun(c, segments, Given(SampleX(c.x0, c.x1, SetMin(starts))),
                           RunEnd(c, RunLast(ok, SetMin(starts)))))

SampleRuns(c) == RunsFrom(c, OkAt(c), RunStarts(OkAt(c)), <<>>)

WholeRange(xmin, xmax) == <<[start |-> ToFixed2(xmin), end |-> ToFixed2(xmax)]>>

\* the end of splitFunctionDomains: the whole range when no run was kept,
\* else the runs that are not empty, clamped to the range
ClampSegments(segments, xmin, xmax) ==
    IF segments = <<>> THEN WholeRange(xmin, xmax)
    ELSE MapSeq(SelectSeq(segments, LAMBDA d : d.end.v > d.start.v),
                LAMBDA d : [start |-> Num(Max2(ToFixed2(xmin).v, d.start.v)),
                            end |-> Num(Min2(ToFixed2(xmax).v, d.end.v))])

SamplingContext(expr, xmin, xmax, ymin, ymax) ==
    [expr |-> expr, x0 |-> xmin.v, x1 |-> xmax.v,
     useYLimit |-> ymin.fin /\ ymax.fin /\ ymax.v > ymin.v,
     yMin |-> ymin.v, yMax |-> ymax.v]

\* splitFunctionDomains(expr, xmin, xmax, ymin, ymax) with the default of
\* 240 samples.  The four-decimal rounding of the range when there is no
\* evaluator keeps a value in thousandths.
SplitFunctionDomains(expr, xmin, xmax, ymin, ymax) ==
    IF ~xmin.fin \/ ~xmax.fin \/ xmax.v <= xmin.v THEN <<>>
    ELSE IF ~HasPotentialDiscontinuity(expr) THEN WholeRange(xmin, xmax)
    ELSE IF ~HasEvaluator(expr) THEN <<[start |-> xmin, end |-> xmax]>>
    ELSE ClampSegments(SampleRuns(SamplingContext(expr, xmin, xmax, ymin, ymax)),
                       xmin, xmax)

FunctionDomains(g, f) ==
    SplitFunctionDomains(StripHead(f.exp), GetBounds(g).xmin, GetBounds(g).xmax,
                         GetBounds(g).ymin, GetBounds(g).ymax)

GenerateFunctions(g, functions) ==
    LET drawn == SelectSeq(functions, LAMBDA f : f.visible /\ f.exp # "")
        Notes(f) == IF FunctionDomains(g, f) = <<>>
                    THEN <<Stmt("functions", "comment", f.label, <<>>, <<>>)>> ELSE <<>>
        Plots(f) == MapSeq(FunctionDomains(g, f), LAMBDA d :
                        Stmt("functions", "plot", f.label, <<>>, <<d.start, d.end>>))
    IN  <<Line("functions", "header")>>
        \o Flatten(MapSeq(drawn, Notes))
        \o WrapWithBoundsClip(g, "functions", Flatten(MapSeq(drawn, Plots)))

\* parseMatrix: A = A0, C = A1, F = A2, B = 2 A3, D = 2 A4, E = 2 A5; null
\* (ok = FALSE) for a missing matrix or an entry that is not finite
ParseMatrix(matrix) ==
    IF matrix.has /\ matrix.A0.fin /\ matrix.A1.fin /\ matrix.A2.fin
       /\ matrix.A3.fin /\ matrix.A4.fin /\ matrix.A5.fin
    THEN [ok |-> TRUE, A |-> matrix.A0.v, C |-> matrix.A1.v, F |-> matrix.A2.v,
          B |-> 2 * matrix.A3.v, D |-> 2 * matrix.A4.v, E |-> 2 * matrix.A5.v]
    ELSE [ok |-> FALSE, A |-> 0, C |-> 0, F |-> 0, B |-> 0, D |-> 0, E |-> 0]

\* nearest integer to x * m / d (d # 0) for operands of either sign
MulDivS(x, m, d) == Sgn(x) * Sgn(d) * MulDiv(Abs(x), m, Abs(d))

NoCircle == [ok |-> FALSE, h |-> NaN, k |-> NaN, r |-> NaN]

\* a decomposition that takes the matrix to be normalised to A = C = 1
CircleFromUnitMatrix(matrix) ==
    LET m == ParseMatrix(matrix)
        K == m.F - MulDivS(m.D * m.D, 1, 4000) - MulDivS(m.E * m.E, 1, 4000)
    IN  IF ~m.ok \/ m.B # 0 \/ m.A # m.C \/ m.A = 0 THEN NoCircle
        ELSE IF -K <= 0 THEN NoCircle
        ELSE [ok |-> TRUE,
              h |-> Num(RoundDiv(-m.D, 2)),
              k |-> Num(RoundDiv(-m.E, 2)),
              r |-> Num(RoundSqrt(-K))]

\* circleFromMatrix: h = -D/2A, k = -E/2C, K = F - D^2/4A - E^2/4C,
\* r = sqrt(-K/A); null unless B = 0, A = C # 0 and -K/A > 0.
\* K and -K/A are in millionths.
CircleFromMatrix(matrix) ==
    LET m == ParseMatrix(matrix)
        K == m.F - MulDivS(m.D * m.D, 1000, 4 * m.A) - MulDivS(m.E * m.E, 1000, 4 * m.C)
        r2 == MulDivS(-K, 1000, m.A)
    IN  IF ~m.ok \/ m.B # 0 \/ m.A # m.C \/ m.A = 0 THEN NoCircle
        ELSE IF r2 <= 0 THEN NoCircle
        ELSE [ok |-> TRUE,
              h |-> Num(RoundDiv(-m.D * 1000, 2 * m.A)),
              k |-> Num(RoundDiv(-m.E * 1000, 2 * m.C)),
              r |-> Num(RoundSqrt(r2))]

\* Math.hypot(dx, dy) on thousandths
Hypot(dx, dy) == RoundSqrt(dx * dx + dy * dy)

\* generateCircle: centre literal with a pass point, centre literal with a
\* radius (printed as given), else the decomposition of the matrix (radius
\* printed with two decimals), else a comment
GenerateCircle(g, c) ==
    LET byMatrix == CircleFromMatrix(c.matrix)
        explicit == c.centerCoord.has
        centerRef == PointRef(g, c.centerCoord, c.centerLabel)
        dx == c.passCoord.x.v - c.centerCoord.x.v
        dy == c.passCoord.y.v - c.centerCoord.y.v
    IN  IF explicit /\ c.passCoord.has
        THEN <<Stmt("conics", "circle", "", <<centerRef>>, <<ToFixed2(Num(Hypot(dx, dy)))>>)>>
        ELSE IF explicit /\ c.hasRadius /\ c.radius.v # 0
        THEN <<Stmt("conics", "circle", "", <<centerRef>>, <<c.radius>>)>>
        ELSE IF byMatrix.ok
        THEN <<Stmt("conics", "circle", c.label,
                    <<PointRef(g, Coord(byMatrix.h, byMatrix.k), "")>>,
                    <<ToFixed2(byMatrix.r)>>)>>
        ELSE <<Stmt("conics", "comment", c.label, <<>>, <<>>)>>

\* centre and value at the centre of the quadratic form m, in thousandths:
\* det = 4AC - B^2, h = (BE - 2CD)/det, k = (BD - 2AE)/det,
\* Fc = A h^2 + B h k + C k^2 + D h + E k + F
FormDet(m) == 4 * MulK(m.A, m.C) - MulK(m.B, m.B)
CentreH(m) == DivK(MulK(m.B, m.E) - 2 * MulK(m.C, m.D), FormDet(m))
CentreK(m) == DivK(MulK(m.B, m.D) - 2 * MulK(m.A, m.E), FormDet(m))

ValueAt(m, h, k) ==
    MulK(MulK(m.A, h), h) + MulK(MulK(m.B, h), k) + MulK(MulK(m.C, k), k)
    + MulK(m.D, h) + MulK(m.E, k) + RoundDiv(m.F, 1000)

\* the coefficients of u^2 and v^2 after the rotation by
\* theta = atan2(B, A - C) / 2: (A + C)/2 + R and (A + C)/2 - R with
\* R = sqrt((A - C)^2 + B^2) / 2, doubled here to stay in whole thousandths
TwiceLambdaU(m) == m.A + m.C + RoundSqrt((m.A - m.C) * (m.A - m.C) + m.B * m.B)
TwiceLambdaV(m) == m.A + m.C - RoundSqrt((m.A - m.C) * (m.A - m.C) + m.B * m.B)

NoAxes == [ok |-> FALSE, h |-> NaN, k |-> NaN, a |-> NaN, b |-> NaN, mainAxis |-> ""]

\* the semi-axes for the squares u2 and v2 (thousandths) of a central conic
AxesAt(h, k, a2, b2, mainAxis) ==
    [ok |-> TRUE, h |-> Num(h), k |-> Num(k),
     a |-> Num(RoundSqrt(1000 * a2)), b |-> Num(RoundSqrt(1000 * b2)), mainAxis |-> mainAxis]

EllipseAt(m, h, k, rhs) ==
    IF ~(TwiceLambdaU(m) * TwiceLambdaV(m) > 0) THEN NoAxes
    ELSE IF ~(DivK(2 * rhs, TwiceLambdaU(m)) > 0 /\ DivK(2 * rhs, TwiceLambdaV(m)) > 0)
    THEN NoAxes
    ELSE AxesAt(h, k, DivK(2 * rhs, TwiceLambdaU(m)), DivK(2 * rhs, TwiceLambdaV(m)), "")

\* ellipseFromMatrix
EllipseFromMatrix(matrix) ==
    LET m == ParseMatrix(matrix)
    IN  IF ~m.ok THEN NoAxes
        ELSE IF FormDet(m) = 0 THEN NoAxes
        ELSE EllipseAt(m, CentreH(m), CentreK(m), -ValueAt(m, CentreH(m), CentreK(m)))

HyperbolaAxesOf(h, k, u2, v2) ==
    IF u2 > 0 /\ v2 < 0 THEN AxesAt(h, k, u2, -v2, "u")
    ELSE IF u2 < 0 /\ v2 > 0 THEN AxesAt(h, k, v2, -u2, "v")
    ELSE NoAxes

HyperbolaAt(m, h, k, rhs) ==
    IF ~(TwiceLambdaU(m) * TwiceLambdaV(m) < 0) THEN NoAxes
    ELSE HyperbolaAxesOf(h, k, DivK(2 * rhs, TwiceLambdaU(m)), DivK(2 * rhs, TwiceLambdaV(m)))

\* hyperbolaFromMatrix
HyperbolaFromMatrix(matrix) ==
    LET m == ParseMatrix(matrix)
    IN  IF ~m.ok THEN NoAxes
        ELSE IF FormDet(m) = 0 THEN NoAxes
        ELSE HyperbolaAt(m, CentreH(m), CentreK(m), -ValueAt(m, CentreH(m), CentreK(m)))

NoGraph == [ok |-> FALSE, mode |-> "", a |-> NaN, b |-> NaN, c |-> NaN]

\* parabolaFromMatrix: x = a y^2 + b y + c when A = 0, y = a x^2 + b x + c
\* when C = 0 (F is in millionths)
ParabolaFromMatrix(matrix) ==
    LET m == ParseMatrix(matrix)
    IN  IF ~m.ok \/ m.B # 0 THEN NoGraph
        ELSE IF m.A = 0 /\ m.D # 0 /\ m.C # 0
        THEN [ok |-> TRUE, mode |-> "x_of_y", a |-> Num(DivK(-m.C, m.D)),
              b |-> Num(DivK(-m.E, m.D)), c |-> Num(RoundDiv(-m.F, m.D))]
        ELSE IF m.C = 0 /\ m.E # 0 /\ m.A # 0
        THEN [ok |-> TRUE, mode |-> "y_of_x", a |-> Num(DivK(-m.A, m.E)),
              b |-> Num(DivK(-m.D, m.E)), c |-> Num(RoundDiv(-m.F, m.E))]
        ELSE NoGraph

\* the idiom  x.coord || (x.label ? this.pointIndex[x.label] : null)
CoordOrIndex(g, coord, label) ==
    IF coord.has THEN coord
    ELSE IF label # "" /\ IndexHas(g.pointIndex, label) THEN IndexGet(g.pointIndex, label)
    ELSE NoCoord

\* getCoordByLabelOrCoord: the coordinate when finite, else the indexed label
GetCoordByLabelOrCoord(g, label, coord) ==
    IF coord.has /\ coord.x.fin /\ coord.y.fin THEN coord
    ELSE IF label # "" /\ IndexHas(g.pointIndex, label) THEN IndexGet(g.pointIndex, label)
    ELSE NoCoord

Truthy(n) == n.fin /\ n.v # 0

Midpoint(p, q) == Coord(Num(RoundDiv(p.x.v + q.x.v, 2)), Num(RoundDiv(p.y.v + q.y.v, 2)))

Distance(p, q) == Hypot(q.x.v - p.x.v, q.y.v - p.y.v)

\* the ellipse with foci f1, f2 and semi-axis a: centre, a and b
EllipseByFoci(kind, label, f1, f2, a) ==
    Stmt("conics", kind, label, <<>>,
         <<ToFixed2(Midpoint(f1, f2).x), ToFixed2(Midpoint(f1, f2).y), ToFixed2(Num(a)),
           ToFixed2(Num(RoundSqrt(Abs(a * a - (Distance(f1, f2) \div 2) * (Distance(f1, f2) \div 2)))))>>)

EllipseByMatrix(c, byMatrix) ==
    IF byMatrix.ok
    THEN <<Stmt("conics", "ellipse_matrix", c.label, <<>>,
                <<ToFixed2(byMatrix.h), ToFixed2(byMatrix.k),
                  ToFixed2(byMatrix.a), ToFixed2(byMatrix.b)>>)>>
    ELSE <<Stmt("conics", "comment", c.label, <<>>, <<>>)>>

\* the semi-axis of the ellipse through p0 with foci f1, f2
HalfFocalSum(f1, f2, p0) == (Distance(p0, f1) + Distance(p0, f2)) \div 2

EllipseThrough(c, f1, f2, a) ==
    IF a > 0 /\ a * a - (Distance(f1, f2) \div 2) * (Distance(f1, f2) \div 2) > 0
    THEN <<EllipseByFoci("ellipse_foci_point", c.label, f1, f2, a)>>
    ELSE EllipseByMatrix(c, EllipseFromMatrix(c.matrix))

EllipseFrom(c, f1, f2, p0) ==
    IF f1.has /\ f2.has /\ Truthy(c.majorAxisLength)
    THEN <<EllipseByFoci("ellipse_foci_axis", "", f1, f2, c.majorAxisLength.v \div 2)>>
    ELSE IF f1.has /\ f2.has /\ p0.has
    THEN EllipseThrough(c, f1, f2, HalfFocalSum(f1, f2, p0))
    ELSE EllipseByMatrix(c, EllipseFromMatrix(c.matrix))

\* generateEllipse: two foci and the axis length, two foci and a point, else
\* the decomposition of the matrix, else a comment
GenerateEllipse(g, c) ==
    EllipseFrom(c, GetCoordByLabelOrCoord(g, c.focus1Label, c.focus1Coord),
                GetCoordByLabelOrCoord(g, c.focus2Label, c.focus2Coord),
                GetCoordByLabelOrCoord(g, c.passLabel, c.passCoord))

\* the directrix texts of the modelled documents matched by
\* /([xy])\s*=\s*(-?\d+(?:\.\d+)?)/: the variable and the value
DirectrixOf(text) ==
    CASE text = "x = -1" -> [ok |-> TRUE, var |-> "x", value |-> -1000]
      [] text = "y=-2" -> [ok |-> TRUE, var |-> "y", value |-> -2000]
      [] OTHER -> [ok |-> FALSE, var |-> "", value |-> 0]

ParabolaByMatrix(c, byMatrix) ==
    IF byMatrix.ok
    THEN <<Stmt("conics", "parabola_matrix_" \o byMatrix.mode, c.label, <<>>,
                <<byMatrix.a, byMatrix.b, byMatrix.c>>)>>
    ELSE <<Stmt("conics", "comment", c.label, <<>>, <<>>)>>

\* vertex coordinate (focus + value) / 2 and coefficient direction * p
ParabolaByDirectrix(c, d, focus) ==
    IF ~d.ok THEN <<Stmt("conics", "comment", c.label, <<>>, <<>>)>>
    ELSE <<Stmt("conics", "parabola_directrix_" \o d.var, c.label, <<>>,
                <<ToFixed2(Num(RoundDiv(focus + d.value, 2))),
                  ToFixed2(Num(focus - RoundDiv(focus + d.value, 2)))>>)>>

\* generateParabola: without a literal focus the decomposition of the matrix,
\* with one the directrix; one statement stands for the plots of the visible
\* parameter ranges
GenerateParabola(g, c) ==
    IF ~c.focusCoord.has THEN ParabolaByMatrix(c, ParabolaFromMatrix(c.matrix))
    ELSE ParabolaByDirectrix(c, DirectrixOf(c.directrix),
                             IF DirectrixOf(c.directrix).var = "x"
                             THEN c.focusCoord.x.v ELSE c.focusCoord.y.v)

HyperbolaByFoci(c) ==
    IF c.focus1Coord.has /\ c.focus2Coord.has
    THEN <<Stmt("conics", "hyperbola_foci", c.label, <<>>,
                <<Midpoint(c.focus1Coord, c.focus2Coord).x,
                  Midpoint(c.focus1Coord, c.focus2Coord).y, Num(1000)>>)>>
    ELSE <<Stmt("conics", "comment", c.label, <<>>, <<>>)>>

HyperbolaBy(c, byMatrix) ==
    IF byMatrix.ok
    THEN <<Stmt("conics", "hyperbola_matrix_" \o byMatrix.mainAxis, c.label, <<>>,
                <<byMatrix.h, byMatrix.k, byMatrix.a, byMatrix.b>>)>>
    ELSE HyperbolaByFoci(c)

\* generateHyperbola: the decomposition of the matrix first, then the two
\* literal foci with a = 1, else a comment; one statement stands for the
\* plots of the two branches
GenerateHyperbola(g, c) == HyperbolaBy(c, HyperbolaFromMatrix(c.matrix))

GenerateConics(g, conics) ==
    LET shown == SelectSeq(conics, LAMBDA c : c.visible)
        Direct(c) == CASE c.conicType = "circle" -> GenerateCircle(g, c)
                       [] c.conicType = "ellipse" -> GenerateEllipse(g, c)
                       [] OTHER -> <<>>
        Clipped(c) == CASE c.conicType = "parabola" -> GenerateParabola(g, c)
                        [] c.conicType = "hyperbola" -> GenerateHyperbola(g, c)
                        [] OTHER -> <<>>
    IN  <<Line("conics", "header")>>
        \o Flatten(MapSeq(shown, Direct))
        \o WrapWithBoundsClip(g, "conics", Flatten(MapSeq(shown, Clipped)))

\* atan(a / b) in thousandths of a degree for 0 <= a <= b, b > 0: exact at
\* 0 and 45 degrees, elsewhere 45 t + 15.64 t (1 - t) with t = a / b
\* (within a quarter of a degree)
AtanOctant(a, b) ==
    IF a = 0 THEN 0
    ELSE IF a = b THEN 45000
    ELSE MulDiv(a, 45000, b) + MulDiv(MulDiv(a, 15640, b), b - a, b)

\* atan(dy / dx) in the first quadrant, dx >= 0, dy >= 0, not both zero
AtanQuadrant(dy, dx) ==
    IF dy <= dx THEN AtanOctant(dy, dx) ELSE 90000 - AtanOctant(dx, dy)

\* Math.atan2(dy, dx) * 180 / Math.PI, in (-180, 180]
Atan2Deg(dy, dx) ==
    IF dx = 0 /\ dy = 0 THEN 0
    ELSE IF dx >= 0 /\ dy >= 0 THEN AtanQuadrant(dy, dx)
    ELSE IF dx < 0 /\ dy >= 0 THEN 180000 - AtanQuadrant(dy, -dx)
    ELSE IF dx < 0 THEN AtanQuadrant(-dy, -dx) - 180000
    ELSE -AtanQuadrant(-dy, dx)

\* angleDeg(center, p)
AngleDeg(center, q) == Atan2Deg(q.y.v - center.y.v, q.x.v - center.x.v)

\* while (end < start) end += 360
RECURSIVE RaiseTo(_, _)
RaiseTo(end, start) == IF end < start THEN RaiseTo(end + 360000, start) ELSE end

\* generateSemicirclePart: arc from point1 with delta -180 about the midpoint
GenerateSemicirclePart(g, part) ==
    LET a == GetCoordByLabelOrCoord(g, part.pts[1].label, part.pts[1].coord)
        b == GetCoordByLabelOrCoord(g, part.pts[2].label, part.pts[2].coord)
        r == RoundDiv(Hypot(b.x.v - a.x.v, b.y.v - a.y.v), 2)
        start == Atan2Deg(a.y.v - b.y.v, a.x.v - b.x.v)
    IN  IF ~a.has \/ ~b.has
        THEN <<Stmt("conicparts", "comment", part.label, <<>>, <<>>)>>
        ELSE <<Stmt("conicparts", "arc", part.label,
                    <<PointRef(g, a, part.pts[1].label)>>,
                    <<ToFixed2(Num(start)), Num(-180000), ToFixed2(Num(r))>>)>>

\* generateCircleSectorPart / generateCircleArcPart: centre, start, end
GenerateCircleArcOrSector(g, part, kind) ==
    LET c == GetCoordByLabelOrCoord(g, part.pts[1].label, part.pts[1].coord)
        s == GetCoordByLabelOrCoord(g, part.pts[2].label, part.pts[2].coord)
        e == GetCoordByLabelOrCoord(g, part.pts[3].label, part.pts[3].coord)
        r == Hypot(s.x.v - c.x.v, s.y.v - c.y.v)
        start == AngleDeg(c, s)
        end == RaiseTo(AngleDeg(c, e), start)
        sRef == PointRef(g, s, part.pts[2].label)
    IN  IF ~c.has \/ ~s.has \/ ~e.has \/ r = 0
        THEN <<Stmt("conicparts", "comment", part.label, <<>>, <<>>)>>
        ELSE <<Stmt("conicparts", kind, part.label,
                    IF kind = "sector" THEN <<PointRef(g, c, part.pts[1].label), sRef>>
                    ELSE <<sRef>>,
                    <<ToFixed2(Num(start)), ToFixed2(Num(end)), ToFixed2(Num(r))>>)>>

\* Arithmetic of the language on numbers that may leave the finite range.
\* MaxFinite stands for the largest finite number (in thousandths): a result
\* beyond it is an infinity, [fin |-> FALSE, v |-> 1] or [fin |-> FALSE,
\* v |-> -1]; NaN is [fin |-> FALSE, v |-> 0].
MaxFinite == 100000

Infinity(sign) == [fin |-> FALSE, v |-> sign]

IsNaN(x) == ~x.fin /\ x.v = 0

Wide(v) == IF Abs(v) > MaxFinite THEN Infinity(Sgn(v)) ELSE Num(v)

Neg(x) == [fin |-> x.fin, v |-> -x.v]

Plus(x, y) ==
    IF IsNaN(x) \/ IsNaN(y) THEN NaN
    ELSE IF ~x.fin /\ ~y.fin THEN (IF x.v = y.v THEN x ELSE NaN)
    ELSE IF ~x.fin THEN x
    ELSE IF ~y.fin THEN y
    ELSE Wide(x.v + y.v)

Minus(x, y) == Plus(x, Neg(y))

Times(x, y) ==
    IF IsNaN(x) \/ IsNaN(y) THEN NaN
    ELSE IF ~x.fin \/ ~y.fin
    THEN (IF x.v = 0 \/ y.v = 0 THEN NaN ELSE Infinity(Sgn(x.v) * Sgn(y.v)))
    ELSE Wide(Sgn(x.v) * Sgn(y.v) * MulDiv(Abs(x.v), Abs(y.v), 1000))

Over(x, y) ==
    IF IsNaN(x) \/ IsNaN(y) THEN NaN
    ELSE IF ~x.fin /\ ~y.fin THEN NaN
    ELSE IF ~x.fin THEN Infinity(IF y.v < 0 THEN -x.v ELSE x.v)
    ELSE IF ~y.fin THEN Num(0)
    ELSE IF y.v = 0 THEN (IF x.v = 0 THEN NaN ELSE Infinity(Sgn(x.v)))
    ELSE Wide(MulDivS(x.v, 1000, y.v))

SquareNorm(q) == Plus(Times(q.x, q.x), Times(q.y, q.y))

\* the numerator  |a|^2 (u2 - u3) + |b|^2 (u3 - u1) + |c|^2 (u1 - u2)
CircumNumerator(a, b, c, u1, u2, u3) ==
    Plus(Plus(Times(SquareNorm(a), Minus(u2, u3)), Times(SquareNorm(b), Minus(u3, u1))),
         Times(SquareNorm(c), Minus(u1, u2)))

\* d = 2 (x1 (y2 - y3) + x2 (y3 - y1) + x3 (y1 - y2))
CircumDet(a, b, c) ==
    Times(Num(2000),
          Plus(Plus(Times(a.x, Minus(b.y, c.y)), Times(b.x, Minus(c.y, a.y))),
               Times(c.x, Minus(a.y, b.y))))

CircumcenterAt(a, b, c, d) ==
    IF ~d.fin \/ d.v = 0 THEN NoCoord
    ELSE Coord(Over(CircumNumerator(a, b, c, a.y, b.y, c.y), d),
               Over(CircumNumerator(a, b, c, Neg(a.x), Neg(b.x), Neg(c.x)), d))

\* circumcenter: null when d is not finite or |d| < 1e-12
Circumcenter(a, b, c) == CircumcenterAt(a, b, c, CircumDet(a, b, c))

\* Math.hypot(a.x - o.x, a.y - o.y): infinite when a difference is, NaN when
\* one is NaN and none infinite
HypotWide(dx, dy) ==
    IF (~dx.fin /\ dx.v # 0) \/ (~dy.fin /\ dy.v # 0) THEN Infinity(1)
    ELSE IF ~dx.fin \/ ~dy.fin THEN NaN
    ELSE IF Abs(dx.v) > 30000 \/ Abs(dy.v) > 30000
    THEN Wide(100 * Hypot(Abs(dx.v) \div 100, Abs(dy.v) \div 100))
    ELSE Wide(Hypot(dx.v, dy.v))

\* isAngleBetweenCCW on angles in thousandths of a degree
IsAngleBetweenCCW(start, end, mid) ==
    ((mid % 360000) - (start % 360000) + 360000) % 360000
        <= ((end % 360000) - (start % 360000) + 360000) % 360000

\* endAngleThroughMid
EndAngleThroughMid(start, end, mid) ==
    IF IsAngleBetweenCCW(start, RaiseTo(end, start), mid) THEN RaiseTo(end, start)
    ELSE RaiseTo(end, start) + 360000

CircumcircleAbout(g, part, kind, a, b, c, o, r) ==
    IF ~r.fin \/ r.v = 0
    THEN <<Stmt("conicparts", "radius-invalid", part.label, <<>>, <<>>)>>
    ELSE <<Stmt("conicparts", kind, part.label,
                IF kind = "circum-sector"
                THEN <<PointRef(g, o, ""), PointRef(g, a, part.pts[1].label)>>
                ELSE <<PointRef(g, a, part.pts[1].label)>>,
                <<ToFixed2(Num(AngleDeg(o, a))),
                  ToFixed2(Num(EndAngleThroughMid(AngleDeg(o, a), AngleDeg(o, c),
                                                  AngleDeg(o, b)))),
                  ToFixed2(r)>>)>>

CircumcircleThrough(g, part, kind, a, b, c, o) ==
    IF ~o.has THEN <<Stmt("conicparts", "collinear", part.label, <<>>, <<>>)>>
    ELSE CircumcircleAbout(g, part, kind, a, b, c, o,
                           HypotWide(Minus(a.x, o.x), Minus(a.y, o.y)))

CircumcirclePoints(g, part, kind, a, b, c) ==
    IF ~a.has \/ ~b.has \/ ~c.has
    THEN <<Stmt("conicparts", "comment", part.label, <<>>, <<>>)>>
    ELSE CircumcircleThrough(g, part, kind, a, b, c, Circumcenter(a, b, c))

\* generateCircumcircleArcPart / generateCircumcircleSectorPart: the three
\* points, their circumcentre, the radius, then the arc from the first point
\* with its start angle, end angle and radius
GenerateCircumcirclePart(g, part, kind) ==
    CircumcirclePoints(g, part, kind,
                       GetCoordByLabelOrCoord(g, part.pts[1].label, part.pts[1].coord),
                       GetCoordByLabelOrCoord(g, part.pts[2].label, part.pts[2].coord),
                       GetCoordByLabelOrCoord(g, part.pts[3].label, part.pts[3].coord))

\* generateConicParts
GenerateConicParts(g, parts) ==
    LET shown == SelectSeq(parts, LAMBDA q : q.visible)
        One(q) == CASE q.commandName = "Semicircle" -> GenerateSemicirclePart(g, q)
                    [] q.commandName = "CircleSector" -> GenerateCircleArcOrSector(g, q, "sector")
                    [] q.commandName = "CircleArc" -> GenerateCircleArcOrSector(g, q, "arc")
                    [] q.commandName = "CircumcircleArc" ->
                            GenerateCircumcirclePart(g, q, "circum-arc")
                    [] q.commandName = "CircumcircleSector" ->
                            GenerateCircumcirclePart(g, q, "circum-sector")
                    [] OTHER -> <<>>
    IN  <<Line("conicparts", "header")>> \o Flatten(MapSeq(shown, One))

----------------------------------------------------------------------------
(* TikZGenerator: lines and rays *)

NoEnds == [ok |-> FALSE, p |-> NoCoord, q |-> NoCoord]

\* lo <= n / d <= hi for d # 0, compared without rounding
RatioWithin(n, d, lo, hi) ==
    IF d > 0 THEN lo * d <= n /\ n <= hi * d ELSE hi * d <= n /\ n <= lo * d

\* the values of s without repetitions, in the order of their first occurrence
RECURSIVE UniqCoords(_, _)
UniqCoords(s, acc) ==
    IF s = <<>> THEN acc
    ELSE UniqCoords(Tail(s), IF Head(s) \in Range(acc) THEN acc ELSE Append(acc, Head(s)))

\* lineFromABCToBounds: crossings of a x + b y + c = 0 with the four edges of
\* the bounds, left, right, bottom, top; the first two distinct ones.
\* c is in the unit of a times the unit of x.
LineFromABCToBounds(a, b, c, bd) ==
    LET xmin == bd.xmin.v
        xmax == bd.xmax.v
        ymin == bd.ymin.v
        ymax == bd.ymax.v
        Left  == IF b # 0 /\ RatioWithin(-(a * xmin + c), b, ymin, ymax)
                 THEN <<Coord(Num(xmin), Num(RoundDiv(-(a * xmin + c), b)))>> ELSE <<>>
        Right == IF b # 0 /\ RatioWithin(-(a * xmax + c), b, ymin, ymax)
                 THEN <<Coord(Num(xmax), Num(RoundDiv(-(a * xmax + c), b)))>> ELSE <<>>
        Bottom == IF a # 0 /\ RatioWithin(-(b * ymin + c), a, xmin, xmax)
                  THEN <<Coord(Num(RoundDiv(-(b * ymin + c), a)), Num(ymin))>> ELSE <<>>
        Top   == IF a # 0 /\ RatioWithin(-(b * ymax + c), a, xmin, xmax)
                 THEN <<Coord(Num(RoundDiv(-(b * ymax + c), a)), Num(ymax))>> ELSE <<>>
        uniq == UniqCoords(Left \o Right \o Bottom \o Top, <<>>)
    IN  IF Len(uniq) >= 2 THEN [ok |-> TRUE, p |-> uniq[1], q |-> uniq[2]] ELSE NoEnds

\* lineFromTwoPointsToBounds; a coordinate that is not finite fails every
\* comparison, so no crossing is found
LineFromTwoPointsToBounds(g, p1, p2) ==
    IF ~p1.x.fin \/ ~p1.y.fin \/ ~p2.x.fin \/ ~p2.y.fin THEN NoEnds
    ELSE LineFromABCToBounds(p1.y.v - p2.y.v, p2.x.v - p1.x.v,
                             p1.x.v * p2.y.v - p2.x.v * p1.y.v, GetBounds(g))

\* findPointsOnLineByABC: labels of the points within 1e-4 of the line
\* a x + b y + c = 0 of the element (a, b, c in thousandths)
FindPointsOnLineByABC(l, points) ==
    LET V(q) == Abs(l.a.v * q.x.v + l.b.v * q.y.v + 1000 * l.c.v)
        n2 == l.a.v * l.a.v + l.b.v * l.b.v
        Near(q) == IF n2 = 0 THEN V(q) <= 100
                   ELSE V(q) <= 4000 /\ 100 * V(q) * V(q) <= n2
    IN  IF ~l.hasABC \/ ~l.a.fin \/ ~l.b.fin \/ ~l.c.fin THEN <<>>
        ELSE MapSeq(SelectSeq(points, LAMBDA q : q.label # "" /\ q.x.fin /\ q.y.fin /\ Near(q)),
                    LAMBDA q : q.label)

Dist2(g, l1, l2) ==
    LET a == IndexGet(g.pointIndex, l1)
        b == IndexGet(g.pointIndex, l2)
    IN  (a.x.v - b.x.v) * (a.x.v - b.x.v) + (a.y.v - b.y.v) * (a.y.v - b.y.v)

\* chooseLabelPair: the first pair, in order, at the greatest distance among
\* the distinct indexed labels; none with fewer than two
ChooseLabelPair(g, labels) ==
    LET uniq == Uniq(SelectSeq(labels, LAMBDA l : IndexHas(g.pointIndex, l)), <<>>)
        n == Len(uniq)
        pairs == {ij \in (1..n) \X (1..n) : ij[1] < ij[2]}
        D(ij) == Dist2(g, uniq[ij[1]], uniq[ij[2]])
        best == CHOOSE ij \in pairs :
                    \A kl \in pairs :
                        \/ D(kl) < D(ij)
                        \/ D(kl) = D(ij) /\ (ij[1] < kl[1] \/ (ij[1] = kl[1] /\ ij[2] <= kl[2]))
    IN  IF n < 2 THEN <<>> ELSE <<uniq[best[1]], uniq[best[2]]>>

\* first coordinate of the list that normalizeCoord accepts
RECURSIVE FirstCoord(_)
FirstCoord(s) ==
    IF s = <<>> THEN NoCoord
    ELSE IF Head(s).has /\ Head(s).x.fin /\ Head(s).y.fin THEN Head(s)
    ELSE FirstCoord(Tail(s))

RelationEnds(g, rel) ==
    LET p1 == FirstCoord(<<rel.through.p1Coord, rel.tangent.throughPointCoord,
                           rel.orthogonal.fromPointCoord>>)
        p2 == FirstCoord(<<rel.through.p2Coord, rel.tangent.tangentPointCoord,
                           rel.orthogonal.footCoord, rel.orthogonal.intersectionPointCoord>>)
    IN  IF p1.has /\ p2.has THEN LineFromTwoPointsToBounds(g, p1, p2) ELSE NoEnds

\* the ends of a line of the second pass: by its two points, else by the
\* general form of the element
LineEnds(g, l) ==
    LET p1 == CoordOrIndex(g, l.point1Coord, l.point1Label)
        p2 == CoordOrIndex(g, l.point2Coord, l.point2Label)
    IN  IF p1.has /\ p2.has THEN LineFromTwoPointsToBounds(g, p1, p2)
        ELSE IF l.hasABC
             THEN (IF l.a.fin /\ l.b.fin /\ l.c.fin
                   THEN LineFromABCToBounds(l.a.v, l.b.v, 1000 * l.c.v, GetBounds(g))
                   ELSE NoEnds)
             ELSE NoEnds

\* an extended segment between two printed coordinates or two labels
ExtendedSegment(cat, label, ends) ==
    Stmt(cat, "draw", label, <<CoordRef(ends.p.x, ends.p.y), CoordRef(ends.q.x, ends.q.y)>>, <<>>)

\* generateLines: relations first (when there are any, the instance draws
\* semantics first and is not strictly static), then every visible line not
\* drawn by a relation
\* a line named by two scene points on it, or by its crossings with the bounds
LineThrough(g, l, pair) ==
    IF g.options.definePointCoordinates /\ pair # <<>>
       /\ IsValidTikzCoordName(pair[1]) /\ IsValidTikzCoordName(pair[2])
    THEN Stmt("lines", "draw", l.label, <<LabelRef(pair[1]), LabelRef(pair[2])>>, <<>>)
    ELSE ExtendedSegment("lines", l.label, LineEnds(g, l))

LineStatement(g, l) ==
    LineThrough(g, l, ChooseLabelPair(g, FindPointsOnLineByABC(l, g.scenePoints)))

\* the lines not drawn from a relation
RemainingLines(g, lines, rels) ==
    SelectSeq(lines, LAMBDA l : l.visible /\ LineEnds(g, l).ok
                                /\ \A i \in 1..Len(rels) : rels[i].label # l.label)

LinesFrom(g, lines, rels) ==
    <<Line("lines", "header")>>
    \o MapSeq(rels, LAMBDA r : ExtendedSegment("lines", r.label, RelationEnds(g, r)))
    \o MapSeq(RemainingLines(g, lines, rels), LAMBDA l : LineStatement(g, l))

GenerateLines(g, lines, lineRelations) ==
    LinesFrom(g, lines,
              IF g.options.semanticFirst
              THEN SelectSeq(lineRelations, LAMBDA r : RelationEnds(g, r).ok)
              ELSE <<>>)

\* rayToBounds: the crossings start + t v (t >= 0) with the four edge lines
\* that lie within the bounds, and of those the one with the greatest t.
\* A crossing is the pair <<n, d>> of its t = n / d, d > 0.
RayCandidates(start, through, bd) ==
    LET sx == start.x.v
        sy == start.y.v
        vx == through.x.v - sx
        vy == through.y.v - sy
        T(n, d) == IF d > 0 THEN <<n, d>> ELSE <<-n, -d>>
        Valid(t) ==
            /\ t[1] >= 0
            /\ (sx - bd.xmin.v) * t[2] + t[1] * vx >= 0
            /\ (sx - bd.xmax.v) * t[2] + t[1] * vx <= 0
            /\ (sy - bd.ymin.v) * t[2] + t[1] * vy >= 0
            /\ (sy - bd.ymax.v) * t[2] + t[1] * vy <= 0
        byX == IF vx # 0 THEN <<T(bd.xmin.v - sx, vx), T(bd.xmax.v - sx, vx)>> ELSE <<>>
        byY == IF vy # 0 THEN <<T(bd.ymin.v - sy, vy), T(bd.ymax.v - sy, vy)>> ELSE <<>>
    IN  SelectSeq(byX \o byY, Valid)

RayToBounds(g, start, through) ==
    LET fin == start.x.fin /\ start.y.fin /\ through.x.fin /\ through.y.fin
        vx == through.x.v - start.x.v
        vy == through.y.v - start.y.v
        cands == RayCandidates(start, through, GetBounds(g))
        \* sort by descending t, first of equal ones first
        top == FirstIndex(cands, LAMBDA t :
                   \A j \in 1..Len(cands) : cands[j][1] * t[2] <= t[1] * cands[j][2])
        t == cands[top]
    IN  IF ~fin THEN NoEnds
        ELSE IF vx = 0 /\ vy = 0 THEN NoEnds
        ELSE IF cands = <<>> THEN NoEnds
        ELSE [ok |-> TRUE, p |-> start,
              q |-> Coord(Num(start.x.v + RoundDiv(t[1] * vx, t[2])),
                          Num(start.y.v + RoundDiv(t[1] * vy, t[2])))]

GenerateRays(g, rays) ==
    LET Start(r) == CoordOrIndex(g, r.startCoord, r.startLabel)
        Through(r) == CoordOrIndex(g, r.throughCoord, r.throughLabel)
        shown == SelectSeq(rays, LAMBDA r :
                     r.visible /\ Start(r).has /\ Through(r).has
                     /\ RayToBounds(g, Start(r), Through(r)).ok)
        One(r) ==
            IF g.options.definePointCoordinates /\ r.startLabel # "" /\ r.throughLabel # ""
               /\ IsValidTikzCoordName(r.startLabel) /\ IsValidTikzCoordName(r.throughLabel)
               /\ IndexHas(g.pointIndex, r.startLabel) /\ IndexHas(g.pointIndex, r.throughLabel)
            THEN Stmt("rays", "draw", r.label,
                      <<LabelRef(r.startLabel), LabelRef(r.throughLabel)>>, <<>>)
            ELSE ExtendedSegment("rays", r.label, RayToBounds(g, Start(r), Through(r)))
    IN  <<Line("rays", "header")>> \o MapSeq(shown, One)

----------------------------------------------------------------------------
(* TikZGenerator: polygons, vectors, segments, points *)

GeneratePolygons(g, polygons) ==
    LET Refs(poly) ==
            LET located == SelectSeq(poly.vertices,
                               LAMBDA v : CoordOrIndex(g, v.coord, v.label).has)
            IN  MapSeq(located, LAMBDA v : PointRef(g, CoordOrIndex(g, v.coord, v.label), v.label))
        shown == SelectSeq(polygons, LAMBDA poly :
                     poly.visible /\ Len(poly.vertices) >= 3 /\ Len(Refs(poly)) >= 3)
    IN  <<Line("polygons", "header")>>
        \o MapSeq(shown, LAMBDA poly : Stmt("polygons", "draw", poly.label, Refs(poly), <<>>))

GenerateVectors(g, vectors) ==
    LET Start(v) == CoordOrIndex(g, v.startCoord, v.startLabel)
        End(v) ==
            LET e == CoordOrIndex(g, v.endCoord, v.endLabel)
                s == Start(v)
            IN  IF ~e.has /\ s.has /\ v.vx.fin /\ v.vy.fin
                THEN (IF s.x.fin /\ s.y.fin
                      THEN Coord(Num(s.x.v + v.vx.v), Num(s.y.v + v.vy.v))
                      ELSE Coord(NaN, NaN))
                ELSE e
        shown == SelectSeq(vectors, LAMBDA v : v.visible /\ Start(v).has /\ End(v).has)
    IN  <<Line("vectors", "header")>>
        \o MapSeq(shown, LAMBDA v :
               Stmt("vectors", "draw", v.label,
                    <<PointRef(g, Start(v), v.startLabel), PointRef(g, End(v), v.endLabel)>>,
                    <<>>))

\* generateSegments: polygon edges are left to the polygon
GenerateSegments(g, segments) ==
    LET Start(s) == CoordOrIndex(g, s.startCoord, s.startLabel)
        End(s) == CoordOrIndex(g, s.endCoord, s.endLabel)
        shown == SelectSeq(segments, LAMBDA s :
                     s.visible /\ ~s.fromPolygon /\ Start(s).has /\ End(s).has)
    IN  <<Line("segments", "header")>>
        \o MapSeq(shown, LAMBDA s :
               Stmt("segments", "draw", s.label,
                    <<PointRef(g, Start(s), s.startLabel), PointRef(g, End(s), s.endLabel)>>,
                    <<>>))

\* generatePoints: one mark per visible point, and the origin mark when the
\* axes are drawn and no visible point is labelled O
GeneratePoints(g, points) ==
    LET shown == SelectSeq(points, LAMBDA q : q.visible)
        hasLabelO == \E i \in 1..Len(shown) : shown[i].label = "O"
    IN  <<Line("points", "header")>>
        \o MapSeq(shown, LAMBDA q :
               Stmt("points", "fill", q.label, <<PointRef(g, Coord(q.x, q.y), q.label)>>, <<>>))
        \o (IF g.options.axis /\ ~hasLabelO
            THEN <<Stmt("points", "axis-origin", "O", <<CoordRef(Num(0), Num(0))>>, <<>>)>>
            ELSE <<>>)

GenerateDerivedPoints(g, points) ==
    <<Line("derived", "header")>>
    \o MapSeq(SelectSeq(points, LAMBDA q : q.coord.has /\ q.coord.x.fin /\ q.coord.y.fin),
              LAMBDA q : Stmt("derived", "fill", q.label, <<CoordRef(q.coord.x, q.coord.y)>>, <<>>))

----------------------------------------------------------------------------
(* TikZGenerator: angles (angles are in thousandths of a degree) *)

\* the remainder operator of the language: the sign of the dividend
JsMod(a, m) == Sgn(a) * (Abs(a) % m)

\* shortestSignedDelta: end - start brought into (-180, 180]
ShortestSignedDelta(startDeg, endDeg) ==
    LET d == JsMod(endDeg - startDeg, 360000)
    IN  IF d > 180000 THEN d - 360000 ELSE IF d <= -180000 THEN d + 360000 ELSE d

\* normalizeDeltaByValue: the value brought into (0, 360]; null (has = FALSE)
\* when it is not finite
NormalizeDeltaByValue(valueDeg) ==
    LET d0 == JsMod(valueDeg.v, 360000)
        d == IF d0 < 0 THEN d0 + 360000 ELSE d0
    IN  IF ~valueDeg.fin THEN Absent ELSE Given(IF d = 0 THEN 360000 ELSE d)

\* isRightAngleByValue: within 1.2 degrees of 90
IsRightAngleByValue(valueDeg) ==
    valueDeg.fin /\ Abs(valueDeg.v - 90000) <= 1200

\* generateTkzAngleByLabels applies: three valid, indexed labels
TkzAngleByLabels(g, a) ==
    /\ a.point1Label # "" /\ a.vertexLabel # "" /\ a.point2Label # ""
    /\ IsValidTikzCoordName(a.point1Label) /\ IsValidTikzCoordName(a.vertexLabel)
    /\ IsValidTikzCoordName(a.point2Label)
    /\ IndexHas(g.pointIndex, a.point1Label) /\ IndexHas(g.pointIndex, a.vertexLabel)
    /\ IndexHas(g.pointIndex, a.point2Label)

\* the mark of generateTkzAngleByLabels: first and third label are swapped
\* when the turn from the first to the third is clockwise
TkzMarkAngle(g, a) ==
    LET pv == IndexGet(g.pointIndex, a.vertexLabel)
        d == ShortestSignedDelta(AngleDeg(pv, IndexGet(g.pointIndex, a.point1Label)),
                                 AngleDeg(pv, IndexGet(g.pointIndex, a.point2Label)))
        first == IF d < 0 THEN a.point2Label ELSE a.point1Label
        third == IF d < 0 THEN a.point1Label ELSE a.point2Label
    IN  Stmt("angles", "mark", a.label,
             <<LabelRef(first), LabelRef(a.vertexLabel), LabelRef(third)>>, <<Num(750)>>)

\* one angle given by three points (the two-line form is not part of the
\* modelled documents; the arc radius is the default 0.75)
GenerateThreePointAngle(g, a) ==
    LET p1 == GetCoordByLabelOrCoord(g, a.point1Label, a.point1Coord)
        v  == GetCoordByLabelOrCoord(g, a.vertexLabel, a.vertexCoord)
        p2 == GetCoordByLabelOrCoord(g, a.point2Label, a.point2Coord)
        start == AngleDeg(v, p1)
        end == AngleDeg(v, p2)
        shortest == ShortestSignedDelta(start, end)
        byValue == NormalizeDeltaByValue(a.valueDeg)
        delta == IF shortest # 0 THEN shortest
                 ELSE IF byValue.has THEN byValue.v
                 ELSE JsMod(end - start + 360000, 360000)
        isRight == IsRightAngleByValue(Num(Abs(delta))) \/ IsRightAngleByValue(a.valueDeg)
        labelLine == IF a.label # ""
                     THEN <<Stmt("angles", "angle-label", a.label, <<>>, <<>>)>> ELSE <<>>
    IN  IF ~p1.has \/ ~v.has \/ ~p2.has THEN <<>>
        ELSE IF delta = 0 THEN <<>>
        ELSE IF TkzAngleByLabels(g, a)
        THEN <<Stmt("angles", "comment", a.label, <<>>, <<>>)>>
             \o (IF isRight
                 THEN <<Stmt("angles", "right-angle", a.label,
                             <<LabelRef(a.point1Label), LabelRef(a.vertexLabel),
                               LabelRef(a.point2Label)>>, <<>>)>>
                 ELSE <<TkzMarkAngle(g, a)>>)
             \o labelLine
        ELSE <<Stmt("angles", "arc", a.label, <<CoordRef(v.x, v.y)>>,
                    <<ToFixed2(Num(start)), ToFixed2(Num(delta)), Num(750)>>)>>

GenerateAngles(g, angles, lines) ==
    <<Line("angles", "header")>>
    \o Flatten(MapSeq(SelectSeq(angles, LAMBDA a : a.visible),
                      LAMBDA a : GenerateThreePointAngle(g, a)))

----------------------------------------------------------------------------
(* TikZGenerator: generate *)

\* the four assignments at the head of generate()
\* an instance that keeps the bounds of an earlier call
RebuildKeepingBounds(g, parsedData) ==
    [g EXCEPT !.bounds = IF g.bounds.has THEN g.bounds
                         ELSE ComputeSmartBounds(g, parsedData),
              !.pointIndex = BuildPointIndex(parsedData.structured.points),
              !.scenePoints = SelectSeq(parsedData.structured.points, LAMBDA q : q.visible),
              !.definedCoordLabels = {}]

RebuildInstance(g, parsedData) ==
    [g EXCEPT !.bounds = ComputeSmartBounds(g, parsedData),
              !.pointIndex = BuildPointIndex(parsedData.structured.points),
              !.scenePoints = SelectSeq(parsedData.structured.points, LAMBDA q : q.visible),
              !.definedCoordLabels = {}]

\* the labels added to definedCoordLabels by generatePointCoordinateDefs
DefinedLabels(g, structured) ==
    IF g.options.definePointCoordinates /\ structured.points # <<>>
    THEN {CoordDefPoints(structured.points)[i].label :
             i \in 1..Len(CoordDefPoints(structured.points))}
    ELSE {}

\* the category blocks of generate(), in the order of the calls
CategoryBlocks(g, structured, semantics) ==
    LET rels == IF g.options.strictStatic THEN <<>> ELSE semantics.lineRelations
    IN  << IF structured.functions # <<>>
           THEN GenerateFunctions(g, structured.functions) ELSE <<>>,
           IF structured.conics # <<>> THEN GenerateConics(g, structured.conics) ELSE <<>>,
           IF structured.conicparts # <<>>
           THEN GenerateConicParts(g, structured.conicparts) ELSE <<>>,
           IF structured.lines # <<>> \/ semantics.lineRelations # <<>>
           THEN GenerateLines(g, structured.lines, rels) ELSE <<>>,
           IF structured.rays # <<>> THEN GenerateRays(g, structured.rays) ELSE <<>>,
           IF structured.polygons # <<>>
           THEN GeneratePolygons(g, structured.polygons) ELSE <<>>,
           IF structured.vectors # <<>> THEN GenerateVectors(g, structured.vectors) ELSE <<>>,
           IF structured.segments # <<>>
           THEN GenerateSegments(g, structured.segments) ELSE <<>>,
           IF structured.angles # <<>>
           THEN GenerateAngles(g, structured.angles, structured.lines) ELSE <<>>,
           IF structured.points # <<>> THEN GeneratePoints(g, structured.points) ELSE <<>>,
           IF g.options.drawDerivedPoints /\ semantics.derivedPoints # <<>>
           THEN GenerateDerivedPoints(g, semantics.derivedPoints) ELSE <<>> >>

\* a generator that emits the blocks in the opposite order
GenerateBodyReversed(g, structured, semantics) ==
    Flatten(Reverse(CategoryBlocks(g, structured, semantics)))

\* lines 119-163 of generate(): the blocks one after the other
GenerateBody(g, structured, semantics) ==
    Flatten(CategoryBlocks(g, structured, semantics))

\* a generator that sorts the point list of the model in place
GenerateReversingPoints(parsedData) ==
    [parsedData EXCEPT !.structured.points = Reverse(@)]

\* what generate() leaves in the model it was handed: every helper reads
\* the entities and builds local arrays only
GenerateEffect(parsedData) == parsedData

\* generate(parsedData): the instance after the call and the outcome.  A
\* parsed value without a structured model faults at the read of
\* structured.points, after the bounds have been assigned.
Generate(g, parsedData) ==
    IF ~parsedData.hasStructured
    THEN [gen |-> [g EXCEPT !.bounds = ComputeSmartBounds(g, parsedData)],
          out |-> [threw |-> TRUE, code |-> <<>>]]
    ELSE LET g1 == RebuildInstance(g, parsedData)
             s == parsedData.structured
             g2 == [g1 EXCEPT !.definedCoordLabels = DefinedLabels(g1, s)]
         IN  [gen |-> g2,
              out |-> [threw |-> FALSE,
                       code |-> GeneratePreamble(g1) \o GenerateBeginTikz(g1)
                                \o (IF g1.options.definePointCoordinates /\ s.points # <<>>
                                    THEN GeneratePointCoordinateDefs(g1, s.points) ELSE <<>>)
                                \o GenerateBody(g2, s, parsedData.semantics)
                                \o GenerateEndTikz(g2)]]

----------------------------------------------------------------------------
(* Documents and options of the pipeline *)

MaxElems == 3     \* elements of a document besides the points of its scene

OneUnit == Num(1000)

PolygonABC ==
    Command("Polygon", <<InLabel("A"), InLabel("B"), InLabel("C")>>, <<"t1", "c1", "a1", "b1">>)

PointEl(label, show, x, y) ==
    Element("point", label, show, Coords(Num(x), Num(y), OneUnit), NoMatrix, NaN)

Plain(type, label) == Element(type, label, "absent", NoCoords, NoMatrix, NaN)

\* a node of the document with the command and the expression that go with it
Item(el, commands, expressions) ==
    [el |-> el, commands |-> commands, expressions |-> expressions]

\* the three free points of a scene: A (0,0), B (3,0), C (0,4)
ScenePoints ==
    <<Item(PointEl("A", "absent", 0, 0), <<>>, <<>>),
      Item(PointEl("B", "true", 3000, 0), <<>>, <<>>),
      Item(PointEl("C", "absent", 0, 4000), <<>>, <<>>)>>

Scenes == {<<>>, ScenePoints}

\* the objects a document may hold besides its scene
Pool ==
    <<\* a point whose x attribute is not a number
      Item(Element("point", "P", "absent", Coords(NaN, OneUnit, OneUnit), NoMatrix, NaN),
           <<>>, <<>>),
      \* a hidden point
      Item(PointEl("D", "false", 2000, 2000), <<>>, <<>>),
      \* a point in homogeneous coordinates whose label is no coordinate name
      Item(Element("point", "A'", "absent", Coords(Num(2000), Num(2000), Num(2000)),
                   NoMatrix, NaN), <<>>, <<>>),
      Item(Plain("segment", "f"),
           <<Command("Segment", <<InLabel("A"), InLabel("B")>>, <<"f">>)>>, <<>>),
      Item(Element("line", "g", "absent", Coords(Num(0), OneUnit, Num(0)), NoMatrix, NaN),
           <<Command("Line", <<InLabel("A"), InLabel("B")>>, <<"g">>)>>, <<>>),
      Item(Element("ray", "h", "absent", Coords(OneUnit, Num(0), Num(0)), NoMatrix, NaN),
           <<Command("Ray", <<InLabel("A"), InLabel("C")>>, <<"h">>)>>, <<>>),
      Item(Plain("polygon", "t1"), <<PolygonABC>>, <<>>),
      \* the edge AB of the polygon
      Item(Plain("segment", "c1"), <<PolygonABC>>, <<>>),
      Item(Element("vector", "u", "absent", Coords(Num(3000), Num(0), Num(0)), NoMatrix, NaN),
           <<Command("Vector", <<InLabel("A"), InLabel("B")>>, <<"u">>)>>, <<>>),
      Item(Element("angle", "alpha", "absent", NoCoords, NoMatrix, Num(90000)),
           <<Command("Angle", <<InLabel("B"), InLabel("A"), InLabel("C")>>, <<"alpha">>)>>,
           <<>>),
      \* Circle(A, 2): centre by label, so the circle is drawn from its matrix
      Item(Element("conic", "c", "absent", NoCoords,
                   Matrix(OneUnit, OneUnit, Num(-4000000), Num(0), Num(0), Num(0)), NaN),
           <<Command("Circle", <<InLabel("A"), InNumber("2", 2000)>>, <<"c">>)>>, <<>>),
      \* Circle((1,1), 2.345): centre literal and radius
      Item(Element("conic", "d", "absent", NoCoords,
                   Matrix(OneUnit, OneUnit, Num(-3499025), Num(0), Num(-1000), Num(-1000)), NaN),
           <<Command("Circle", <<InCoord("(1,1)", 1000, 1000), InNumber("2.345", 2345)>>,
                     <<"d">>)>>, <<>>),
      \* a conic known by its equation only
      Item(Plain("conic", "e"), <<>>,
           <<Expression("e", "x^2/4+y^2=1", FALSE, 0, 0)>>),
      Item(Plain("conicpart", "k"),
           <<Command("Semicircle", <<InLabel("A"), InLabel("B")>>, <<"k">>)>>, <<>>),
      Item(Plain("function", "f1"), <<>>,
           <<Expression("f1", "f1(x) = x^2", FALSE, 0, 0)>>),
      \* an element type the parser does not recognise
      Item(Plain("text", "T"), <<>>, <<>>)>>

\* the document made of a list of items, in their order
DocumentOf(items) ==
    Document(MapSeq(items, LAMBDA i : i.el),
             UniqCoords(Flatten(MapSeq(items, LAMBDA i : i.commands)), <<>>),
             Flatten(MapSeq(items, LAMBDA i : i.expressions)))

\* the items of the pool at the positions I, in pool order
PoolItems(I) == SelectSeq(Pool, LAMBDA it : \E i \in I : Pool[i] = it)

Selections == {I \in SUBSET (1..Len(Pool)) : Cardinality(I) <= MaxElems}

\* documents: a scene followed by a selection of the pool, or the same
\* nodes in the opposite order; and the document without a construction
Documents ==
    {DocumentOf(scene \o PoolItems(I)) : scene \in Scenes, I \in Selections}
    \cup {DocumentOf(Reverse(scene \o PoolItems(I))) : scene \in Scenes, I \in Selections}
    \cup {NoConstructionDocument}

Options(outputMode, axis, definePointCoordinates, smartBounds, strictStatic, derived, xmin) ==
    RawOptions(outputMode, axis, definePointCoordinates, smartBounds, strictStatic, derived,
               xmin, Absent, Absent, Absent)

\* the options objects handed to the constructor
OptionSet ==
    {Options("", "absent", "absent", "absent", "absent", "absent", Absent),
     Options("standalone", "true", "true", "false", "absent", "absent", Absent),
     Options("figure", "false", "absent", "absent", "absent", "absent", Absent),
     Options("figure", "absent", "absent", "absent", "false", "true", Given(-6000)),
     Options("tikz", "absent", "false", "absent", "absent", "absent", Absent),
     Options("tikz", "false", "absent", "false", "absent", "absent", Absent)}

----------------------------------------------------------------------------
(* The caller: new GGBParser(xml).parse(), new TikZGenerator(options),       *)
(* generate(parsed)                                                          *)

NoParsed ==
    [hasStructured |-> FALSE, structured |-> EmptyResult,
     semantics |-> [lineRelations |-> <<>>, derivedPoints |-> <<>>], total |-> 0]

NoOutput == [threw |-> FALSE, code |-> <<>>]

NoInstance ==
    Constructor(Options("", "absent", "absent", "absent", "absent", "absent", Absent))

\* before: the argument and the instance at the entry of the latest generate
NoCall == [parsed |-> NoParsed, gen |-> NoInstance]

Init ==
    /\ pc = "new"
    /\ parser \in {NewParserInstance(d) : d \in Documents}
    /\ parsed = NoParsed
    /\ gen = NoInstance
    /\ out = NoOutput
    /\ before = NoCall
    /\ calls = 0
    /\ app = NoApp

\* parser.parse(): the indexes are instance fields
ParseDocument ==
    /\ pc = "new"
    /\ parser' = IF parser.doc.hasConstruction THEN WithIndexes(parser) ELSE parser
    /\ parsed' = Parse(parser)
    /\ pc' = IF calls = 0 THEN "parsed" ELSE "ready"
    /\ UNCHANGED <<gen, out, before, calls, app>>

\* new TikZGenerator(options)
NewGenerator(options) ==
    /\ pc = "parsed"
    /\ gen' = Constructor(options)
    /\ pc' = "ready"
    /\ UNCHANGED <<parser, parsed, out, before, calls, app>>

\* generator.generate(parsed)
GenerateCode ==
    /\ pc = "ready"
    /\ before' = [parsed |-> parsed, gen |-> gen]
    /\ \E r \in {Generate(gen, parsed)} : gen' = r.gen /\ out' = r.out
    /\ parsed' = GenerateEffect(parsed)
    /\ calls' = calls + 1
    /\ pc' = "done"
    /\ UNCHANGED <<parser, app>>

Next ==
    \/ ParseDocument
    \/ \E options \in OptionSet : NewGenerator(options)
    \/ GenerateCode

Spec == Init /\ [][Next]_vars

----------------------------------------------------------------------------
(* One generator instance used for several documents *)

MaxCalls == 2     \* generate calls on one instance

PoolItem(label) == SelectSeq(Pool, LAMBDA it : it.el.label = label)

ReuseScenes == {<<>>, ScenePoints, <<ScenePoints[2]>>}

ReuseExtras == {<<>>} \cup {PoolItem(label) : label \in {"P", "g", "f1"}}

ReuseDocuments ==
    {DocumentOf(scene \o extra) : scene \in ReuseScenes, extra \in ReuseExtras}
    \cup {NoConstructionDocument}

InitReuse ==
    /\ pc = "new"
    /\ parser \in {NewParserInstance(d) : d \in ReuseDocuments}
    /\ parsed = NoParsed
    /\ gen = NoInstance
    /\ out = NoOutput
    /\ before = NoCall
    /\ calls = 0
    /\ app = NoApp

\* the caller reads the next document; the generator instance is kept
NextDocument(d) ==
    /\ pc = "done"
    /\ calls < MaxCalls
    /\ parser' = NewParserInstance(d)
    /\ pc' = "new"
    /\ UNCHANGED <<parsed, gen, out, before, calls, app>>

NextReuse ==
    \/ ParseDocument
    \/ \E options \in OptionSet : NewGenerator(options)
    \/ GenerateCode
    \/ \E d \in ReuseDocuments : NextDocument(d)

SpecReuse == InitReuse /\ [][NextReuse]_vars

----------------------------------------------------------------------------
(* Documents with arbitrary command and element lists, for the indexes *)

MaxCommands == 2     \* <command> nodes of a document

IndexOutputs ==
    {<<>>, <<"A">>, <<"M">>, <<"">>, <<"A", "M">>, <<"M", "">>, <<"A", "A">>}

IndexCommands ==
    {Command(name, <<InLabel("B")>>, outputs) :
        name \in {"Midpoint", "Intersect"}, outputs \in IndexOutputs}
    \cup {[Command("Midpoint", <<>>, <<"A">>) EXCEPT !.hasInput = FALSE]}

IndexElements ==
    {<<>>,
     <<PointEl("A", "absent", 0, 0)>>,
     <<PointEl("A", "absent", 0, 0), PointEl("M", "absent", 1000, 0)>>,
     <<PointEl("M", "absent", 1000, 0), PointEl("A", "absent", 0, 0)>>,
     <<PointEl("A", "absent", 0, 0), PointEl("A", "absent", 2000, 0)>>,
     <<PointEl("", "absent", 0, 0), PointEl("M", "absent", 1000, 0)>>}

IndexDocuments ==
    {Document(elements, commands, <<>>) :
        elements \in IndexElements, commands \in SeqsUpTo(IndexCommands, MaxCommands)}

InitIndex ==
    /\ pc = "new"
    /\ parser \in {NewParserInstance(d) : d \in IndexDocuments}
    /\ parsed = NoParsed
    /\ gen = NoInstance
    /\ out = NoOutput
    /\ before = NoCall
    /\ calls = 0
    /\ app = NoApp

NextIndex == ParseDocument

SpecIndex == InitIndex /\ [][NextIndex]_vars

----------------------------------------------------------------------------
(* Conics known by their matrix only *)

MaxCoef == 2     \* largest magnitude of the entries A0, A1, A3

Coefs == {1000 * n : n \in (0 - MaxCoef)..MaxCoef}

\* A0 x^2 + A1 y^2 + 2 A3 xy - 1 = 0
MatrixConic(a0, a1, a3) ==
    Element("conic", "q", "absent", NoCoords,
            Matrix(Num(a0), Num(a1), Num(-1000000), Num(a3), Num(0), Num(0)), NaN)

ClassifyDocuments ==
    {Document(<<MatrixConic(a0, a1, a3)>>, <<>>, <<>>) :
        a0 \in Coefs, a1 \in Coefs, a3 \in Coefs}

InitClassify ==
    /\ pc = "new"
    /\ parser \in {NewParserInstance(d) : d \in ClassifyDocuments}
    /\ parsed = NoParsed
    /\ gen = NoInstance
    /\ out = NoOutput
    /\ before = NoCall
    /\ calls = 0
    /\ app = NoApp

NextClassify == ParseDocument

SpecClassify == InitClassify /\ [][NextClassify]_vars

----------------------------------------------------------------------------
(* A circle given twice: by centre and radius, and by its matrix alone *)

CircleCentres == {<<0, 0>>, <<1000, 1000>>, <<-1500, 2000>>}

CircleRadii == {2000, 2345, 500, 1250}

MatrixScales == {1, 2, -1}

\* s (x^2 + y^2 - 2 h x - 2 k y + h^2 + k^2 - r^2) = 0
CircleMatrix(h, k, r, s) ==
    Matrix(Num(1000 * s), Num(1000 * s), Num(s * (h * h + k * k - r * r)), Num(0),
           Num(0 - s * h), Num(0 - s * k))

\* Circle((h, k), r), as the file stores it
ExplicitCircle(h, k, r) ==
    Item(Element("conic", "c", "absent", NoCoords, CircleMatrix(h, k, r, 1), NaN),
         <<Command("Circle", <<InCoord("(h, k)", h, k), InNumber("r", r)>>, <<"c">>)>>, <<>>)

\* the same circle without a command
MatrixCircle(h, k, r, s) ==
    Item(Element("conic", "m", "absent", NoCoords, CircleMatrix(h, k, r, s), NaN), <<>>, <<>>)

\* both circles, after a point at the centre when atCentre holds
CircleDocument(c, r, s, atCentre) ==
    DocumentOf((IF atCentre THEN <<Item(PointEl("A", "absent", c[1], c[2]), <<>>, <<>>)>>
                ELSE <<>>)
               \o <<ExplicitCircle(c[1], c[2], r), MatrixCircle(c[1], c[2], r, s)>>)

CircleDocuments ==
    {CircleDocument(c, r, s, atCentre) :
        c \in CircleCentres, r \in CircleRadii, s \in MatrixScales, atCentre \in BOOLEAN}

InitCircle ==
    /\ pc = "new"
    /\ parser \in {NewParserInstance(d) : d \in CircleDocuments}
    /\ parsed = NoParsed
    /\ gen = NoInstance
    /\ out = NoOutput
    /\ before = NoCall
    /\ calls = 0
    /\ app = NoApp

SpecCircle == InitCircle /\ [][Next]_vars

----------------------------------------------------------------------------
(* Properties of the pipeline *)

Returned == pc = "done" /\ ~out.threw

Positions(code, kind) == {i \in 1..Len(code) : code[i].kind = kind}

\* C1: for every document, with or without a construction root, and every
\* options record, parse followed by generate returns a string and never
\* throws.
C1_NeverThrows == pc = "done" => ~out.threw

CategoryOrder ==
    <<"functions", "conics", "conicparts", "lines", "rays", "polygons", "vectors",
      "segments", "angles", "points">>

IsCategory(cat) == cat \in Range(CategoryOrder)

CategoryRank(cat) == CHOOSE i \in 1..Len(CategoryOrder) : CategoryOrder[i] = cat

\* C2: in every returned text the category blocks appear in the order
\* functions, conics, conic-parts, lines, rays, polygons, vectors, segments,
\* angles, points, all of them after the picture begin and before the
\* picture close; no statement of a later category precedes a statement of
\* an earlier one.
C2_CategoryOrder ==
    Returned =>
        LET code == out.code
        IN  /\ \A i, j \in 1..Len(code) :
                  i < j /\ IsCategory(code[i].cat) /\ IsCategory(code[j].cat)
                  => CategoryRank(code[i].cat) <= CategoryRank(code[j].cat)
            /\ \A i \in 1..Len(code) :
                  IsCategory(code[i].cat)
                  => /\ \E b \in Positions(code, "begin-tikzpicture") : b < i
                     /\ \E e \in Positions(code, "end-tikzpicture") : i < e

\* a returned text with four categories, from a document that lists a
\* point before a function
C2_Witness ==
    /\ Returned
    /\ Cardinality({out.code[i].cat : i \in 1..Len(out.code)} \cap Range(CategoryOrder)) >= 4
    /\ \E i, j \in 1..Len(parser.doc.elements) :
          i < j /\ parser.doc.elements[i].type = "point"
                /\ parser.doc.elements[j].type = "function"

HeaderKinds == {"documentclass", "usepackage", "usetikzlibrary", "begin-document"}

BeginsWithHeader(code) ==
    /\ code # <<>>
    /\ code[1].cat = "preamble"
    /\ \E i, j \in 1..Len(code) :
          /\ i < j
          /\ code[i].kind = "documentclass"
          /\ code[j].kind = "usetikzlibrary"
          /\ \A k \in 1..j : code[k].cat = "preamble"

CaptionAfterClose(code) ==
    \E e \in Positions(code, "end-tikzpicture") :
        /\ e + 2 <= Len(code)
        /\ code[e + 1].kind = "caption"
        /\ code[e + 2].kind = "label"

\* C3: the returned text begins with the document header and the library
\* imports exactly when the output mode is standalone; in every mode it has
\* exactly one picture begin followed later by exactly one picture close;
\* and the close is followed by a caption/label pair exactly when the mode
\* is figure.
C3_Wrapping ==
    Returned =>
        LET code == out.code
            mode == gen.options.outputMode
        IN  /\ BeginsWithHeader(code) <=> mode = "standalone"
            /\ mode # "standalone" => \A i \in 1..Len(code) : code[i].kind \notin HeaderKinds
            /\ Cardinality(Positions(code, "begin-tikzpicture")) = 1
            /\ Cardinality(Positions(code, "end-tikzpicture")) = 1
            /\ \A b \in Positions(code, "begin-tikzpicture") :
                  \A e \in Positions(code, "end-tikzpicture") : b < e
            /\ CaptionAfterClose(code) <=> mode = "figure"
            /\ mode # "figure" =>
                  \A i \in 1..Len(code) : code[i].kind \notin {"caption", "label"}

\* a figure-mode text with statements between the begin and the close
C3_Witness ==
    /\ Returned
    /\ gen.options.outputMode = "figure"
    /\ CaptionAfterClose(out.code)
    /\ \E i \in 1..Len(out.code) : IsCategory(out.code[i].cat)

FiniteRef(r) == r.label # "" \/ (r.x.fin /\ r.y.fin)

FiniteStmt(st) ==
    /\ \A i \in 1..Len(st.refs) : FiniteRef(st.refs[i])
    /\ \A i \in 1..Len(st.nums) : st.nums[i].fin

\* C4: no returned text holds a non-finite number in a coordinate, radius,
\* angle or plot domain, whatever the coordinate attributes of the
\* document's elements.
C4_NoNonFinite ==
    Returned => \A i \in 1..Len(out.code) : FiniteStmt(out.code[i])

Buckets(r) ==
    <<r.points, r.functions, r.segments, r.polygons, r.vectors, r.lines, r.rays,
      r.angles, r.conics, r.conicparts, r.others>>

\* the number of entries of the result that stand for the element node el
Occurrences(r, el) ==
    LET all == Flatten(Buckets(r))
    IN  Cardinality({i \in 1..Len(all) : all[i].label = el.label /\ all[i].type = el.type})

BucketOf(r, type) ==
    CASE type = "point" -> r.points
      [] type = "function" -> r.functions
      [] type = "segment" -> r.segments
      [] type = "polygon" -> r.polygons
      [] type = "vector" -> r.vectors
      [] type = "line" -> r.lines
      [] type = "ray" -> r.rays
      [] type = "angle" -> r.angles
      [] type = "conic" -> r.conics
      [] type = "conicpart" -> r.conicparts
      [] OTHER -> r.others

FreshLike(g) ==
    [g EXCEPT !.bounds = NoBounds, !.pointIndex = <<>>, !.scenePoints = <<>>,
              !.definedCoordLabels = {}]

\* C5: whatever calls an instance has served before, generate(d) has the
\* outcome that a fresh instance with the same options has for d; a call
\* that returns leaves the bounds, point index, scene points and
\* defined-coordinate set that the fresh instance is left with; computing
\* the smart bounds again for the same model gives the same bounds.
C5_InvocationIsolated ==
    pc = "done" =>
        LET fresh == Generate(FreshLike(before.gen), before.parsed)
        IN  /\ out = fresh.out
            /\ ~out.threw => gen = fresh.gen
            /\ ComputeSmartBounds(gen, before.parsed) = gen.bounds

\* a second call whose instance entered with other bounds and other
\* defined coordinates than the call leaves
C5_Witness ==
    /\ Returned
    /\ calls >= 2
    /\ before.gen.bounds.has
    /\ before.gen.bounds # gen.bounds
    /\ before.gen.definedCoordLabels # gen.definedCoordLabels
    /\ \E i \in 1..Len(out.code) : out.code[i].kind = "clip"

\* the positions of the command list whose command lists label as an output
Producers(p, label) ==
    {i \in 1..Len(p.commandList) : label \in Range(p.commandList[i].outputs)}

ElementsLabelled(p, label) ==
    {i \in 1..Len(p.doc.elements) : p.doc.elements[i].label = label}

OutputLabels(p) == UNION {Range(p.commandList[i].outputs) : i \in 1..Len(p.commandList)}

Indexed == pc = "parsed" /\ parser.doc.hasConstruction

\* C8: every output label of every command of the command list
\* corresponds to exactly one element, and the command recorded for a label
\* in the command-by-output-label index is the only command of the list
\* that lists the label as an output.
C8_OneProducerOneElement ==
    Indexed =>
        /\ \A label \in OutputLabels(parser) :
              Cardinality(ElementsLabelled(parser, label)) = 1
        /\ \A label \in DOMAIN parser.cmdMap :
              \E i \in Producers(parser, label) :
                  /\ Producers(parser, label) = {i}
                  /\ parser.cmdMap[label] = parser.commandList[i]

\* C8, amended: the index has an entry for exactly the non-empty output
\* labels of the listed commands, and the entry of a label is the last
\* command of the list that lists it (the only one when there is only one);
\* the element index has an entry for exactly the non-empty element labels,
\* the last element carrying the label.
C8_LastProducerWins ==
    Indexed =>
        /\ DOMAIN parser.cmdMap = OutputLabels(parser)
        /\ "" \notin OutputLabels(parser)
        /\ \A label \in DOMAIN parser.cmdMap :
              /\ Producers(parser, label) # {}
              /\ parser.cmdMap[label] = parser.commandList[SetMax(Producers(parser, label))]
        /\ DOMAIN parser.elementMap =
              {parser.doc.elements[i].label : i \in 1..Len(parser.doc.elements)} \ {""}
        /\ \A label \in DOMAIN parser.elementMap :
              parser.elementMap[label] =
                  parser.doc.elements[SetMax(ElementsLabelled(parser, label))]

\* an indexed document in which two commands of different names list the
\* same label, and a listed label names no element
C8_Witness ==
    /\ Indexed
    /\ \E label \in DOMAIN parser.cmdMap :
          \E i, j \in Producers(parser, label) :
              i < j /\ parser.commandList[i].name # parser.commandList[j].name
    /\ \E label \in OutputLabels(parser) : ElementsLabelled(parser, label) = {}

\* the type that the discriminant B^2 - 4AC gives, B being twice A3
TypeByDiscriminant(matrix) ==
    LET A == matrix.A0.v
        C == matrix.A1.v
        B == 2 * matrix.A3.v
        disc == B * B - 4 * A * C
    IN  IF disc = 0 THEN "parabola"
        ELSE IF disc > 0 THEN "hyperbola"
        ELSE IF B = 0 /\ A = C THEN "circle"
        ELSE "ellipse"

\* C9: a conic known by its matrix gets the type that the discriminant
\* B^2 - 4AC gives, the entry A3 being half of B: parabola when it is
\* zero, hyperbola when positive, ellipse when negative, circle when also
\* B = 0 and A = C, for every combination of A, B and C.
C9_TypeByDiscriminant ==
    pc = "parsed" /\ parsed.hasStructured =>
        \A i \in 1..Len(parsed.structured.conics) :
            LET c == parsed.structured.conics[i]
            IN  c.commandName = "" /\ c.equation = "" /\ c.matrix.has
                => c.conicType = TypeByDiscriminant(c.matrix)

CircleStatements(code) == SelectSeq(code, LAMBDA st : st.kind = "circle")

ConicLabelled(model, label) ==
    SelectSeq(model.structured.conics, LAMBDA c : c.label = label)

TwoCirclesDrawn ==
    /\ Returned
    /\ Len(CircleStatements(out.code)) = 2
    /\ Len(ConicLabelled(before.parsed, "c")) = 1
    /\ Len(ConicLabelled(before.parsed, "m")) = 1

\* C10: the circle statement written from the matrix has the same centre
\* and the same radius as the one written from the centre and the radius.
C10_SameCircleBothPaths ==
    TwoCirclesDrawn =>
        LET st == CircleStatements(out.code)
        IN  st[1].refs = st[2].refs /\ st[1].nums = st[2].nums

\* C10, amended: the decomposition of the matrix gives back the centre and
\* the radius; both statements name the same centre; the radius written from
\* the matrix is the radius with two decimals, so it is the explicit radius
\* when that has at most two decimals and within 0.005 of it otherwise.
C10_SameCentreRoundedRadius ==
    TwoCirclesDrawn =>
        LET st == CircleStatements(out.code)
            explicit == ConicLabelled(before.parsed, "c")[1]
            byMatrix == CircleFromMatrix(ConicLabelled(before.parsed, "m")[1].matrix)
        IN  /\ byMatrix.ok
            /\ byMatrix.h = explicit.centerCoord.x
            /\ byMatrix.k = explicit.centerCoord.y
            /\ byMatrix.r = explicit.radius
            /\ st[1].refs = st[2].refs
            /\ st[1].nums = <<explicit.radius>>
            /\ Len(st[2].nums) = 1
            /\ Abs(st[2].nums[1].v - explicit.radius.v) <= 5
            /\ st[2].nums[1].v % 10 = 0
            /\ explicit.radius.v % 10 = 0 => st[2].nums = st[1].nums

\* both statements for a radius with three decimals and a matrix that is
\* not normalised
C10_Witness ==
    /\ TwoCirclesDrawn
    /\ ConicLabelled(before.parsed, "c")[1].radius.v % 10 # 0
    /\ ConicLabelled(before.parsed, "m")[1].matrix.A0 # OneUnit

\* Circle((0,0), 2) drawn by both paths
C10_WitnessOrigin ==
    /\ TwoCirclesDrawn
    /\ ConicLabelled(before.parsed, "c")[1].centerCoord = Coord(Num(0), Num(0))
    /\ ConicLabelled(before.parsed, "c")[1].radius = Num(2000)
    /\ CircleStatements(out.code)[2].nums = <<Num(2000)>>

----------------------------------------------------------------------------
(* Lines constructed by the Tangent command on a conic known by its matrix *)

\* x^2 + y^2 = 25
Circle5 == Matrix(Num(1000), Num(1000), Num(-25000000), Num(0), Num(0), Num(0))
\* (x - 1)^2 + (y - 2)^2 = 25
CircleAt12 == Matrix(Num(1000), Num(1000), Num(-20000000), Num(0), Num(-1000), Num(-2000))
\* x^2 + 4 y^2 = 4
EllipseAxes == Matrix(Num(1000), Num(4000), Num(-4000000), Num(0), Num(0), Num(0))
\* y^2 = 4 x
ParabolaX == Matrix(Num(0), Num(1000), Num(0), Num(0), Num(-2000), Num(0))
\* x^2 - y^2 = 1
HyperbolaAxes == Matrix(Num(1000), Num(-1000), Num(-1000000), Num(0), Num(0), Num(0))
\* x^2 + x y + y^2 = 3
EllipseTilted == Matrix(Num(1000), Num(1000), Num(-3000000), Num(500), Num(0), Num(0))
\* x y = 1
HyperbolaXY == Matrix(Num(0), Num(0), Num(-1000000), Num(500), Num(0), Num(0))

\* <<matrix, <<a, b, c>>>>: a conic and a line a x + b y + c = 0 (units)
TangentCases ==
    {<<Circle5, l>> : l \in {<<1, 0, -5>>, <<0, 1, -5>>, <<3, 4, -25>>, <<-4, 3, 25>>,
                             <<1, 0, 5>>, <<0, 2, 10>>, <<1, 0, -3>>, <<1, 1, 0>>}}
    \cup {<<CircleAt12, l>> : l \in {<<1, 0, -6>>, <<0, 1, -7>>, <<3, 4, -36>>}}
    \cup {<<EllipseAxes, l>> : l \in {<<1, 0, -2>>, <<0, 1, -1>>, <<0, 1, 1>>, <<0, 1, 0>>}}
    \cup {<<ParabolaX, l>> : l \in {<<1, -1, 1>>, <<1, 0, 0>>, <<0, 1, -2>>}}
    \cup {<<HyperbolaAxes, l>> : l \in {<<1, 0, -1>>, <<1, 0, 1>>, <<1, -1, 0>>}}
    \cup {<<EllipseTilted, l>> : l \in {<<1, 0, -2>>, <<0, 1, -2>>, <<1, 1, -2>>, <<0, 1, 2>>}}
    \cup {<<HyperbolaXY, l>> : l \in {<<1, 1, -2>>, <<1, 1, 2>>}}

\* the conic c, the line t with its general form, and Tangent(c) -> t
TangentDocument(case, show) ==
    Document(<<Element("conic", "c", "absent", NoCoords, case[1], NaN),
               Element("line", "t", show,
                       Coords(Num(1000 * case[2][1]), Num(1000 * case[2][2]),
                              Num(1000 * case[2][3])), NoMatrix, NaN)>>,
             <<Command("Tangent", <<InLabel("c")>>, <<"t">>)>>, <<>>)

TangentDocuments ==
    {TangentDocument(case, show) : case \in TangentCases, show \in {"absent", "false"}}

InitTangent ==
    /\ pc = "new"
    /\ parser \in {NewParserInstance(d) : d \in TangentDocuments}
    /\ parsed = NoParsed
    /\ gen = NoInstance
    /\ out = NoOutput
    /\ before = NoCall
    /\ calls = 0
    /\ app = NoApp

SpecTangent == InitTangent /\ [][Next]_vars

----------------------------------------------------------------------------
(* Tangency *)

\* x * y for values in thousandths, without forming x * y
WideMulK(x, y) == MulDivS(x, y, 1000)

\* the entries of a conic matrix in thousandths
EntriesOf(M) ==
    [A0 |-> M.A0.v, A1 |-> M.A1.v, A2 |-> RoundDiv(M.A2.v, 1000), A3 |-> M.A3.v,
     A4 |-> M.A4.v, A5 |-> M.A5.v]

\* l^T adj(M) l for the symmetric matrix M = [A0 A3 A4; A3 A1 A5; A4 A5 A2]:
\* zero exactly when the line l = (a, b, c) is tangent to the conic
DualForm(a, b, c, E) ==
    WideMulK(WideMulK(a, a), WideMulK(E.A1, E.A2) - WideMulK(E.A5, E.A5))
    + WideMulK(WideMulK(b, b), WideMulK(E.A0, E.A2) - WideMulK(E.A4, E.A4))
    + WideMulK(WideMulK(c, c), WideMulK(E.A0, E.A1) - WideMulK(E.A3, E.A3))
    + 2 * WideMulK(WideMulK(a, b), WideMulK(E.A4, E.A5) - WideMulK(E.A3, E.A2))
    + 2 * WideMulK(WideMulK(a, c), WideMulK(E.A3, E.A5) - WideMulK(E.A1, E.A4))
    + 2 * WideMulK(WideMulK(b, c), WideMulK(E.A3, E.A4) - WideMulK(E.A0, E.A5))

IsTangentLine(l, M) == DualForm(l.a.v, l.b.v, l.c.v, EntriesOf(M)) = 0

\* a x + b y + c at the point pt
LineResidual(l, pt) ==
    WideMulK(l.a.v, pt.x.v) + WideMulK(l.b.v, pt.y.v) + l.c.v

\* A0 x^2 + A1 y^2 + 2 A3 x y + 2 A4 x + 2 A5 y + A2 at the point pt
ConicResidual(E, pt) ==
    WideMulK(E.A0, WideMulK(pt.x.v, pt.x.v)) + WideMulK(E.A1, WideMulK(pt.y.v, pt.y.v))
    + 2 * WideMulK(E.A3, WideMulK(pt.x.v, pt.y.v))
    + 2 * WideMulK(E.A4, pt.x.v) + 2 * WideMulK(E.A5, pt.y.v) + E.A2

\* pt satisfies both equations within 0.01
OnLineAndConic(l, M, pt) ==
    /\ pt.x.fin /\ pt.y.fin
    /\ Abs(LineResidual(l, pt)) <= 10
    /\ Abs(ConicResidual(EntriesOf(M), pt)) <= 10

\* the lines of the model made by a Tangent command on a conic with a matrix
TangentLinesParsed ==
    SelectSeq(parsed.structured.lines,
              LAMBDA l : l.commandName = "Tangent" /\ l.hasABC
                         /\ GetConicMatrixByLabel(parser, "c").has)

\* C11: for every line tangent to a conic given by its matrix, the point the
\* tangent-point solver returns lies on the line and on the conic
C11_TangentPointOnBoth ==
    pc # "new" =>
        \A i \in 1..Len(TangentLinesParsed) :
            LET l == TangentLinesParsed[i]
                M == GetConicMatrixByLabel(parser, "c")
            IN  (IsTangentLine(l, M) /\ l.tangentPointCoord.has)
                    => OnLineAndConic(l, M, l.tangentPointCoord)

\* the same for the conics without a mixed term x y (A3 = 0), the circle of
\* centre (0,0) and radius 5 among them: there a returned point is on the
\* line and on the conic (an asymptote, tangent at infinity, has none)
C11_TangentPointWithoutMixedTerm ==
    pc # "new" =>
        \A i \in 1..Len(TangentLinesParsed) :
            LET l == TangentLinesParsed[i]
                M == GetConicMatrixByLabel(parser, "c")
            IN  (IsTangentLine(l, M) /\ M.A3.v = 0 /\ l.tangentPointCoord.has)
                    => OnLineAndConic(l, M, l.tangentPointCoord)

\* a tangent of the circle x^2 + y^2 = 25 has been solved
C11_CircleSolved ==
    /\ pc # "new"
    /\ GetConicMatrixByLabel(parser, "c") = Circle5
    /\ Len(TangentLinesParsed) = 1
    /\ IsTangentLine(TangentLinesParsed[1], Circle5)
    /\ TangentLinesParsed[1].a.v # 0 /\ TangentLinesParsed[1].b.v # 0
    /\ TangentLinesParsed[1].tangentPointCoord.has

----------------------------------------------------------------------------
(* Function plots over several viewports *)

FunctionTexts ==
    {"f(x) = 1/x", "g(x) = sqrt(x)", "h(x) = cot(x)", "k(x) = 1/", "f1(x) = x^2"}

\* a function f with its expression, after a point at the origin when
\* atOrigin holds
FunctionDocument(exp, atOrigin) ==
    DocumentOf((IF atOrigin THEN <<Item(PointEl("A", "absent", 0, 0), <<>>, <<>>)>> ELSE <<>>)
               \o <<Item(Plain("function", "f"), <<>>,
                         <<Expression("f", exp, FALSE, 0, 0)>>)>>)

FunctionDocuments ==
    {FunctionDocument(exp, atOrigin) : exp \in FunctionTexts, atOrigin \in BOOLEAN}

\* <<xmin, xmax, ymin, ymax>> in thousandths
Viewports ==
    {<<-5000, 5000, -5000, 5000>>, <<-5000, 5000, -2000, 2000>>,
     <<-5000, 5000, 10000, 20000>>, <<-4000, 6000, -5000, 5000>>,
     <<1000, 5000, -5000, 5000>>, <<-5000, -1000, -5000, 5000>>,
     <<-800, 800, -800, 800>>, <<-5000, 5000, 5000, -5000>>}

\* the default options (smart bounds), and every viewport supplied in full
ViewportOptions ==
    {Options("", "absent", "absent", "absent", "absent", "absent", Absent)}
    \cup {RawOptions("tikz", "absent", "absent", "false", "absent", "absent",
                     Given(w[1]), Given(w[2]), Given(w[3]), Given(w[4])) : w \in Viewports}

InitDomains ==
    /\ pc = "new"
    /\ parser \in {NewParserInstance(d) : d \in FunctionDocuments}
    /\ parsed = NoParsed
    /\ gen = NoInstance
    /\ out = NoOutput
    /\ before = NoCall
    /\ calls = 0
    /\ app = NoApp

NextDomains ==
    \/ ParseDocument
    \/ \E options \in ViewportOptions : NewGenerator(options)
    \/ GenerateCode

SpecDomains == InitDomains /\ [][NextDomains]_vars

----------------------------------------------------------------------------
(* Domain splitting *)

\* the plot statements of the function labelled label
PlotsOf(code, label) ==
    SelectSeq(code, LAMBDA st : st.kind = "plot" /\ st.label = label)

\* the visible functions with an expression flagged as potentially discontinuous
FlaggedFunctions(model) ==
    SelectSeq(model.structured.functions,
              LAMBDA f : f.visible /\ f.exp # "" /\ HasPotentialDiscontinuity(StripHead(f.exp)))

\* the sample points of the viewport b lying in [lo, hi]
SamplesWithin(b, lo, hi) ==
    {x \in {SampleX(b.xmin.v, b.xmax.v, i) : i \in 0..Samples} : lo <= x /\ x <= hi}

\* the function is finite, and inside the y-range of b, at the sample x
FiniteInRange(f, b, x) ==
    SampleOk(StripHead(f.exp), x, b.ymin.v < b.ymax.v, b.ymin.v, b.ymax.v)

\* every sample point of the plotted interval st is one where f is finite
\* and in range
CleanRun(f, b, st) ==
    \A x \in SamplesWithin(b, st.nums[1].v, st.nums[2].v) : FiniteInRange(f, b, x)

Disjoint(plots) ==
    \A i, j \in 1..Len(plots) : i < j => plots[i].nums[2].v < plots[j].nums[1].v

\* C12: the plotted sub-intervals of a function flagged as potentially
\* discontinuous are pairwise disjoint and contain no sample point where the
\* function is undefined or out of the y-range; 1/x over [-5,5] is plotted
\* on at least two sub-intervals, none containing 0
C12_SubIntervalsAreCleanRuns ==
    (pc = "done" /\ ~out.threw) =>
        \A k \in 1..Len(FlaggedFunctions(before.parsed)) :
            LET f == FlaggedFunctions(before.parsed)[k]
                b == GetBounds(gen)
                plots == PlotsOf(out.code, f.label)
            IN  /\ Disjoint(plots)
                /\ \A i \in 1..Len(plots) : CleanRun(f, b, plots[i])
                /\ (StripHead(f.exp) = "1/x" /\ b.xmin.v = -5000 /\ b.xmax.v = 5000)
                       => /\ Len(plots) >= 2
                          /\ \A i \in 1..Len(plots) :
                                ~(plots[i].nums[1].v <= 0 /\ 0 <= plots[i].nums[2].v)

\* the plot of f is the single interval of the whole x-range
WholeRangePlot(b, plots) ==
    Len(plots) = 1 /\ plots[1].nums = <<ToFixed2(b.xmin), ToFixed2(b.xmax)>>

\* whenever the plot is not the whole x-range, the plotted sub-intervals are
\* disjoint runs of good sample points; and 1/x over [-5,5] x [-5,5] is
\* plotted on two sub-intervals, none containing 0
C12_SplitPlotsAreCleanRuns ==
    (pc = "done" /\ ~out.threw) =>
        \A k \in 1..Len(FlaggedFunctions(before.parsed)) :
            LET f == FlaggedFunctions(before.parsed)[k]
                b == GetBounds(gen)
                plots == PlotsOf(out.code, f.label)
            IN  /\ ~WholeRangePlot(b, plots)
                      => Disjoint(plots) /\ \A i \in 1..Len(plots) : CleanRun(f, b, plots[i])
                /\ (StripHead(f.exp) = "1/x" /\ b.xmin.v = -5000 /\ b.xmax.v = 5000
                    /\ b.ymin.v = -5000 /\ b.ymax.v = 5000)
                       => /\ Len(plots) = 2
                          /\ plots[1].nums[2].v < 0 /\ 0 < plots[2].nums[1].v

----------------------------------------------------------------------------
(* Three-point angles at the vertex (0,0) *)

\* the arm points, in thousandths
Arms ==
    {<<1000, 0>>, <<0, 1000>>, <<-1000, 0>>, <<1000, 1000>>, <<0, -2000>>, <<-10, 1000>>}

\* how the command names its points: every point by label, every point by a
\* coordinate literal, or the vertex by a literal and the arms by label
AngleForms == {"labels", "literals", "vertex literal"}

ArmInput(form, label, arm) ==
    IF form = "literals" THEN InCoord("(x, y)", arm[1], arm[2]) ELSE InLabel(label)

VertexInput(form) == IF form = "labels" THEN InLabel("O") ELSE InCoord("(0, 0)", 0, 0)

\* the points the command names by label, then the angle Angle(A, O, B)
AngleDocument(form, a, b, val) ==
    DocumentOf((IF form = "labels" THEN <<Item(PointEl("O", "absent", 0, 0), <<>>, <<>>)>>
                ELSE <<>>)
               \o (IF form # "literals"
                   THEN <<Item(PointEl("A", "absent", a[1], a[2]), <<>>, <<>>),
                          Item(PointEl("B", "absent", b[1], b[2]), <<>>, <<>>)>>
                   ELSE <<>>)
               \o <<Item(Element("angle", "alpha", "absent", NoCoords, NoMatrix, val),
                         <<Command("Angle", <<ArmInput(form, "A", a), VertexInput(form),
                                              ArmInput(form, "B", b)>>, <<"alpha">>)>>,
                         <<>>)>>)

\* the two arms are different points
ArmPairs == {ab \in Arms \X Arms : ab[1] # ab[2]}

\* the value the file stores for the angle: the anticlockwise turn from the
\* first arm to the second, in [0, 360)
StoredValue(a, b) ==
    Num(JsMod(Atan2Deg(b[2], b[1]) - Atan2Deg(a[2], a[1]) + 360000, 360000))

\* the angle with its stored value, or without a readable value
AngleDocuments ==
    {AngleDocument(form, ab[1], ab[2], IF valued THEN StoredValue(ab[1], ab[2]) ELSE NaN) :
        form \in AngleForms, ab \in ArmPairs, valued \in BOOLEAN}

InitAngles ==
    /\ pc = "new"
    /\ parser \in {NewParserInstance(d) : d \in AngleDocuments}
    /\ parsed = NoParsed
    /\ gen = NoInstance
    /\ out = NoOutput
    /\ before = NoCall
    /\ calls = 0
    /\ app = NoApp

SpecAngles == InitAngles /\ [][Next]_vars

----------------------------------------------------------------------------
(* Angle marks *)

\* the visible angles whose three points the generator resolves
ResolvedAngles(g, model) ==
    SelectSeq(model.structured.angles,
              LAMBDA a : /\ a.visible
                         /\ GetCoordByLabelOrCoord(g, a.point1Label, a.point1Coord).has
                         /\ GetCoordByLabelOrCoord(g, a.vertexLabel, a.vertexCoord).has
                         /\ GetCoordByLabelOrCoord(g, a.point2Label, a.point2Coord).has)

\* the arm of the angle from the vertex v to the point q
Arm(v, q) == [x |-> q.x.v - v.x.v, y |-> q.y.v - v.y.v]

ArmDot(u, w) == WideMulK(u.x, w.x) + WideMulK(u.y, w.y)

\* the angle between the arms u and w is within 1.2 degrees of 90:
\* cos^2 <= sin^2(1.2 degrees) = 1 / 2280
NearRightAngle(u, w) ==
    /\ ArmDot(u, u) > 0 /\ ArmDot(w, w) > 0
    /\ 2280 * WideMulK(ArmDot(u, w), ArmDot(u, w)) <= WideMulK(ArmDot(u, u), ArmDot(w, w))

\* the angle between the arms, in thousandths of a degree, in [0, 180]
ArmAngle(u, w) == Abs(ShortestSignedDelta(Atan2Deg(u.y, u.x), Atan2Deg(w.y, w.x)))

StatementsOf(code, kind, label) ==
    SelectSeq(code, LAMBDA st : st.kind = kind /\ st.label = label)

\* the magnitude a statement renders: 90 for a right-angle mark, the
\* anticlockwise sweep from the first to the third point for an angle mark,
\* the size of the delta for an arc
RenderedMagnitude(g, st) ==
    CASE st.kind = "right-angle" -> 90000
      [] st.kind = "mark" ->
            JsMod(AngleDeg(IndexGet(g.pointIndex, st.refs[2].label),
                           IndexGet(g.pointIndex, st.refs[3].label))
                  - AngleDeg(IndexGet(g.pointIndex, st.refs[2].label),
                             IndexGet(g.pointIndex, st.refs[1].label)) + 720000, 360000)
      [] OTHER -> Abs(st.nums[2].v)

AngleStatements(code, label) ==
    SelectSeq(code, LAMBDA st : st.kind \in {"right-angle", "mark", "arc"} /\ st.label = label)

\* every angle statement for the angle a renders the shortest-arc magnitude
\* of its arms (a symmetric function of the two arm points), within 1.2
\* degrees
RendersShortestArc(g, a, code) ==
    \A i \in 1..Len(AngleStatements(code, a.label)) :
        Abs(RenderedMagnitude(g, AngleStatements(code, a.label)[i])
            - ArmAngle(Arm(GetCoordByLabelOrCoord(g, a.vertexLabel, a.vertexCoord),
                           GetCoordByLabelOrCoord(g, a.point1Label, a.point1Coord)),
                       Arm(GetCoordByLabelOrCoord(g, a.vertexLabel, a.vertexCoord),
                           GetCoordByLabelOrCoord(g, a.point2Label, a.point2Coord)))) <= 1200

IsNearRight(g, a) ==
    NearRightAngle(Arm(GetCoordByLabelOrCoord(g, a.vertexLabel, a.vertexCoord),
                       GetCoordByLabelOrCoord(g, a.point1Label, a.point1Coord)),
                   Arm(GetCoordByLabelOrCoord(g, a.vertexLabel, a.vertexCoord),
                       GetCoordByLabelOrCoord(g, a.point2Label, a.point2Coord)))

RightAngleMarkOnly(a, code) ==
    /\ Len(StatementsOf(code, "right-angle", a.label)) = 1
    /\ StatementsOf(code, "mark", a.label) = <<>>
    /\ StatementsOf(code, "arc", a.label) = <<>>

\* C13: a visible three-point angle whose points are resolved, by label or
\* by literal coordinate, and whose shortest arc is within 1.2 degrees of 90
\* is rendered as a right-angle mark and never as an arc; the rendered
\* magnitude does not depend on the order of the two arm points
C13_RightAngleMark ==
    (pc = "done" /\ ~out.threw) =>
        \A k \in 1..Len(ResolvedAngles(gen, before.parsed)) :
            /\ IsNearRight(gen, ResolvedAngles(gen, before.parsed)[k])
                  => RightAngleMarkOnly(ResolvedAngles(gen, before.parsed)[k], out.code)
            /\ RendersShortestArc(gen, ResolvedAngles(gen, before.parsed)[k], out.code)

\* the same for the angles the generator can write with three point names
\* (valid coordinate names of indexed points); every resolved angle renders
\* its shortest-arc magnitude
C13_RightAngleMarkByNames ==
    (pc = "done" /\ ~out.threw) =>
        \A k \in 1..Len(ResolvedAngles(gen, before.parsed)) :
            /\ (IsNearRight(gen, ResolvedAngles(gen, before.parsed)[k])
                /\ TkzAngleByLabels(gen, ResolvedAngles(gen, before.parsed)[k]))
                  => RightAngleMarkOnly(ResolvedAngles(gen, before.parsed)[k], out.code)
            /\ RendersShortestArc(gen, ResolvedAngles(gen, before.parsed)[k], out.code)

----------------------------------------------------------------------------
(* Smart bounds *)

\* the visible points of the model with finite coordinates
VisibleFinitePoints(model) ==
    SelectSeq(model.structured.points, LAMBDA q : q.visible /\ q.x.fin /\ q.y.fin)

HiddenFinitePoints(model) ==
    SelectSeq(model.structured.points, LAMBDA q : ~q.visible /\ q.x.fin /\ q.y.fin)

NoOverride(g) ==
    ~g.boundsOverrides.xmin /\ ~g.boundsOverrides.xmax
    /\ ~g.boundsOverrides.ymin /\ ~g.boundsOverrides.ymax

\* max(0.8, 0.2 * extent) in fifths of a thousandth, a zero extent being
\* replaced by the minimum span 2
PadFifths(vals) ==
    Max2(4000, IF SetMax(vals) = SetMin(vals) THEN 2000 ELSE SetMax(vals) - SetMin(vals))

\* bound is the value exact (in fifths of a thousandth) rounded to two decimals
RoundedToTwoDecimals(bound, exact) ==
    bound.fin /\ bound.v % 10 = 0 /\ Abs(5 * bound.v - exact) <= 25

\* lo and hi are min - pad and max + pad over vals, rounded, and every value
\* is strictly between them
PaddedAxis(lo, hi, vals) ==
    /\ RoundedToTwoDecimals(lo, 5 * SetMin(vals) - PadFifths(vals))
    /\ RoundedToTwoDecimals(hi, 5 * SetMax(vals) + PadFifths(vals))
    /\ \A v \in vals : lo.v < v /\ v < hi.v

SmartCase ==
    /\ pc = "done" /\ ~out.threw
    /\ before.gen.options.smartBounds /\ NoOverride(before.gen)
    /\ VisibleFinitePoints(before.parsed) # <<>>

\* C14: in smart mode, with a visible point of finite coordinates and no
\* bound supplied, each axis is bounded by [min - pad, max + pad] over the
\* visible points only, rounded to two decimals, with pad = max(0.8, 0.2 *
\* extent) and a zero extent replaced by the minimum span; every visible
\* point is strictly inside
C14_SmartBounds ==
    SmartCase =>
        /\ gen.bounds.has
        /\ PaddedAxis(gen.bounds.xmin, gen.bounds.xmax,
                      {VisibleFinitePoints(before.parsed)[i].x.v :
                          i \in 1..Len(VisibleFinitePoints(before.parsed))})
        /\ PaddedAxis(gen.bounds.ymin, gen.bounds.ymax,
                      {VisibleFinitePoints(before.parsed)[i].y.v :
                          i \in 1..Len(VisibleFinitePoints(before.parsed))})

\* smart bounds were computed for a model with a hidden point that is not
\* inside them, and with an axis of zero extent
C14_Witness ==
    /\ SmartCase
    /\ \E i \in 1..Len(HiddenFinitePoints(before.parsed)) :
          HiddenFinitePoints(before.parsed)[i].x.v >= gen.bounds.xmax.v
    /\ gen.bounds.xmax.v - gen.bounds.xmin.v = 1600

----------------------------------------------------------------------------
(* Viewport bounds supplied by the caller *)

\* two points, each shown or hidden
BoundsDocuments ==
    {Document(<<PointEl("A", showA, a[1], a[2]), PointEl("B", showB, b[1], b[2])>>, <<>>, <<>>) :
        showA \in {"absent", "false"}, showB \in {"true", "false"},
        a \in {<<0, 0>>, <<-1234, 567>>}, b \in {<<3000, 4000>>, <<-1234, 9000>>}}

\* what the caller writes for a bound: nothing, a number, or undefined
BoundForms(v) == {Absent, Given(v), Undefined}

BoundsOptions ==
    {RawOptions("tikz", "absent", "absent", smart, "absent", "absent", x0, x1, y0, y1) :
        smart \in {"absent", "false"},
        x0 \in BoundForms(-6000), x1 \in BoundForms(7500),
        y0 \in BoundForms(-2250), y1 \in BoundForms(12000)}

InitBounds ==
    /\ pc = "new"
    /\ parser \in {NewParserInstance(d) : d \in BoundsDocuments}
    /\ parsed = NoParsed
    /\ gen = NoInstance
    /\ out = NoOutput
    /\ before = NoCall
    /\ calls = 0
    /\ app = NoApp

NextBounds ==
    \/ ParseDocument
    \/ \E options \in BoundsOptions : NewGenerator(options)
    \/ GenerateCode

SpecBounds == InitBounds /\ [][NextBounds]_vars

----------------------------------------------------------------------------
(* Overrides *)

BoundNames == {"xmin", "xmax", "ymin", "ymax"}

\* the caller gave a value for the bound
Supplied(o) == o.has /\ ~IsNullish(o)

\* the same options with no bound supplied
WithoutBounds(options) ==
    [options EXCEPT !.xmin = Absent, !.xmax = Absent, !.ymin = Absent, !.ymax = Absent]

\* the bounds computed for the model when the caller supplies none
ComputedBounds(options, model) ==
    ComputeSmartBounds(Constructor(WithoutBounds(options)), model)

\* every bound is the supplied value, or else the computed one
EffectiveAsSupplied(options, model, bounds) ==
    \A k \in BoundNames :
        bounds[k] = IF Supplied(options[k]) THEN Num(options[k].v)
                    ELSE ComputedBounds(options, model)[k]

Generated == pc = "done" /\ ~out.threw

\* C15: each of the four bounds independently is the value the caller
\* supplied, or the computed value when the caller supplied none, whatever
\* the caller supplied for the other three
C15_BoundsIndependent ==
    Generated =>
        \A options \in BoundsOptions :
            before.gen = Constructor(options) =>
                EffectiveAsSupplied(options, before.parsed, gen.bounds)

AllNumeric(options) == \A k \in BoundNames : ~IsNullish(options[k])

\* the same, for callers that write a number or nothing for every bound
C15_NumericBoundsIndependent ==
    Generated =>
        \A options \in BoundsOptions :
            (AllNumeric(options) /\ before.gen = Constructor(options)) =>
                EffectiveAsSupplied(options, before.parsed, gen.bounds)

\* smart bounds with xmin and ymax supplied and the other two computed
C15_MixedOverrides ==
    /\ Generated /\ before.gen.options.smartBounds
    /\ VisibleFinitePoints(before.parsed) # <<>>
    /\ before.gen.boundsOverrides = [xmin |-> TRUE, xmax |-> FALSE, ymin |-> FALSE, ymax |-> TRUE]
    /\ gen.bounds.xmin = Num(-6000) /\ gen.bounds.ymax = Num(12000)
    /\ gen.bounds.xmax # Num(10000) /\ gen.bounds.ymin # Num(-10000)

----------------------------------------------------------------------------
(* Conics known from a command, an equation and a matrix *)

\* <<command name, inputs, equation, matrix>>: the same curve from each source
ConicCases ==
    {\* x^2 - y^2/3 = 1, foci (-2,0) and (2,0), axis length 2
     <<"Hyperbola", <<InCoord("(-2,0)", -2000, 0), InCoord("(2,0)", 2000, 0), InNumber("2", 2000)>>,
       "3x^2-y^2=3", Matrix(Num(3000), Num(-1000), Num(-3000000), Num(0), Num(0), Num(0))>>,
     \* x^2/4 + y^2/3 = 1, foci (-1,0) and (1,0), axis length 4
     <<"Ellipse", <<InCoord("(-1,0)", -1000, 0), InCoord("(1,0)", 1000, 0), InNumber("4", 4000)>>,
       "3x^2+4y^2=12", Matrix(Num(3000), Num(4000), Num(-12000000), Num(0), Num(0), Num(0))>>,
     \* the same ellipse through the point (2,0)
     <<"Ellipse", <<InCoord("(-1,0)", -1000, 0), InCoord("(1,0)", 1000, 0), InCoord("(2,0)", 2000, 0)>>,
       "3x^2+4y^2=12", Matrix(Num(3000), Num(4000), Num(-12000000), Num(0), Num(0), Num(0))>>,
     \* y^2 = 4x, focus (1,0), directrix x = -1
     <<"Parabola", <<InCoord("(1,0)", 1000, 0), InLabel("x = -1")>>,
       "y^2=4x", Matrix(Num(0), Num(1000), Num(0), Num(0), Num(-2000), Num(0))>>,
     \* the same parabola with the directrix given as the line d
     <<"Parabola", <<InCoord("(1,0)", 1000, 0), InLabel("d")>>,
       "y^2=4x", Matrix(Num(0), Num(1000), Num(0), Num(0), Num(-2000), Num(0))>>,
     \* 2x^2 + 2y^2 = 8, the circle of radius 2 about the origin
     <<"Circle", <<InCoord("(0,0)", 0, 0), InNumber("2", 2000)>>,
       "2x^2+2y^2=8", Matrix(Num(2000), Num(2000), Num(-8000000), Num(0), Num(0), Num(0))>>}

\* the conic c with any of its three sources present or missing
ConicDocument(case, byCommand, byEquation, byMatrix) ==
    Document(<<Element("conic", "c", "absent", NoCoords,
                       IF byMatrix THEN case[4] ELSE NoMatrix, NaN)>>,
             IF byCommand THEN <<Command(case[1], case[2], <<"c">>)>> ELSE <<>>,
             IF byEquation THEN <<Expression("c", case[3], FALSE, 0, 0)>> ELSE <<>>)

ConicDocuments ==
    {ConicDocument(case, byCommand, byEquation, byMatrix) :
        case \in ConicCases, byCommand \in BOOLEAN, byEquation \in BOOLEAN, byMatrix \in BOOLEAN}

InitConics ==
    /\ pc = "new"
    /\ parser \in {NewParserInstance(d) : d \in ConicDocuments}
    /\ parsed = NoParsed
    /\ gen = NoInstance
    /\ out = NoOutput
    /\ before = NoCall
    /\ calls = 0
    /\ app = NoApp

SpecConics == InitConics /\ [][Next]_vars

----------------------------------------------------------------------------
(* Source priority *)

DrawnConics(model) ==
    SelectSeq(model.structured.conics,
              LAMBDA c : c.visible /\ c.conicType \in {"ellipse", "parabola", "hyperbola"})

\* the type given by the highest-priority source that gives one
TypeByPriority(c) ==
    IF c.commandName # "" THEN NormalizeConicTypeByCommand(c.commandName)
    ELSE IF InferConicTypeFromEquation(c.equation) # "" THEN InferConicTypeFromEquation(c.equation)
    ELSE IF c.matrix.has THEN InferConicTypeFromMatrix(c.matrix)
    ELSE "conic"

\* the command carries the parameters its curve is drawn from
CommandUsable(c) ==
    CASE c.commandName \in {"Ellipse", "Hyperbola"} ->
            c.focus1Coord.has /\ c.focus2Coord.has /\ (Truthy(c.majorAxisLength) \/ c.passCoord.has)
      [] c.commandName = "Parabola" -> c.focusCoord.has /\ DirectrixOf(c.directrix).ok
      [] OTHER -> FALSE

MatrixUsable(c) ==
    CASE c.conicType = "ellipse" -> EllipseFromMatrix(c.matrix).ok
      [] c.conicType = "parabola" -> ParabolaFromMatrix(c.matrix).ok
      [] c.conicType = "hyperbola" -> HyperbolaFromMatrix(c.matrix).ok
      [] OTHER -> FALSE

SourceByPriority(c) ==
    IF CommandUsable(c) THEN "command"
    ELSE IF InferConicTypeFromEquation(c.equation) # "" THEN "equation"
    ELSE IF MatrixUsable(c) THEN "matrix"
    ELSE "none"

\* the source a statement of the conic routine was drawn from
SourceOf(st) ==
    CASE st.kind \in {"ellipse_foci_axis", "ellipse_foci_point", "hyperbola_foci",
                      "parabola_directrix_x", "parabola_directrix_y"} -> "command"
      [] st.kind \in {"ellipse_matrix", "hyperbola_matrix_u", "hyperbola_matrix_v",
                      "parabola_matrix_x_of_y", "parabola_matrix_y_of_x"} -> "matrix"
      [] OTHER -> "none"

ConicStatements(code) ==
    SelectSeq(code, LAMBDA st : st.cat = "conics"
                                /\ st.kind \notin {"header", "begin-scope", "clip", "end-scope"}
                                /\ ~(st.kind = "comment" /\ st.label = ""))

\* C16: the type of every conic and the parameters it is drawn from come
\* from the highest-priority source available: the command, then the
\* equation, then the matrix
C16_SourcePriority ==
    Generated =>
        \A i \in 1..Len(before.parsed.structured.conics) :
            /\ before.parsed.structured.conics[i].conicType
                   = TypeByPriority(before.parsed.structured.conics[i])
            /\ \A j \in 1..Len(ConicStatements(out.code)) :
                   Len(DrawnConics(before.parsed)) = 1 =>
                       SourceOf(ConicStatements(out.code)[j])
                           = SourceByPriority(DrawnConics(before.parsed)[1])

\* the order the routines follow: an ellipse is drawn from its command when
\* that is usable and else from its matrix; a parabola with a literal focus
\* from its directrix or not at all, and one without from its matrix; a
\* hyperbola from its matrix when that decomposes and else from its two
\* literal foci; the equation is drawn from by none
SourceByRoutine(c) ==
    CASE c.conicType = "hyperbola" ->
            (IF MatrixUsable(c) THEN "matrix"
             ELSE IF c.focus1Coord.has /\ c.focus2Coord.has THEN "command" ELSE "none")
      [] c.conicType = "parabola" ->
            (IF c.focusCoord.has THEN (IF CommandUsable(c) THEN "command" ELSE "none")
             ELSE IF MatrixUsable(c) THEN "matrix" ELSE "none")
      [] OTHER ->
            (IF CommandUsable(c) THEN "command"
             ELSE IF MatrixUsable(c) THEN "matrix" ELSE "none")

C16_SourceByRoutine ==
    Generated =>
        \A j \in 1..Len(ConicStatements(out.code)) :
            Len(DrawnConics(before.parsed)) = 1 =>
                SourceOf(ConicStatements(out.code)[j])
                    = SourceByRoutine(DrawnConics(before.parsed)[1])

\* a hyperbola with a usable command and a matrix was drawn from its matrix
C16_HyperbolaFromMatrix ==
    /\ Generated
    /\ Len(DrawnConics(before.parsed)) = 1
    /\ DrawnConics(before.parsed)[1].commandName = "Hyperbola"
    /\ CommandUsable(DrawnConics(before.parsed)[1])
    /\ \E j \in 1..Len(out.code) : out.code[j].kind = "hyperbola_matrix_u"

----------------------------------------------------------------------------
(* Arcs of the circle through three points *)

\* whole coordinates, the last two with a square beyond MaxFinite
ArcCoordinates == {<<0, 0>>, <<4, 0>>, <<0, 3>>, <<2, 0>>, <<1, 1>>, <<50, 0>>, <<0, 50>>}

ArcInput(q) == InCoord("", 1000 * q[1], 1000 * q[2])

ArcDocument(name, a, b, c) ==
    Document(<<Plain("conicpart", "k")>>,
             <<Command(name, <<ArcInput(a), ArcInput(b), ArcInput(c)>>, <<"k">>)>>, <<>>)

ArcDocuments ==
    {ArcDocument(name, a, b, c) :
        name \in {"CircumcircleArc", "CircumcircleSector"},
        a \in ArcCoordinates, b \in ArcCoordinates, c \in ArcCoordinates}

InitArcs ==
    /\ pc = "new"
    /\ parser \in {NewParserInstance(d) : d \in ArcDocuments}
    /\ parsed = NoParsed
    /\ gen = NoInstance
    /\ out = NoOutput
    /\ before = NoCall
    /\ calls = 0
    /\ app = NoApp

SpecArcs == InitArcs /\ [][Next]_vars

----------------------------------------------------------------------------
(* Degenerate inputs of the solvers *)

CircumcircleParts(model) ==
    SelectSeq(model.structured.conicparts,
              LAMBDA q : q.visible /\ q.commandName \in {"CircumcircleArc", "CircumcircleSector"}
                         /\ \A i \in 1..3 : q.pts[i].coord.has /\ q.pts[i].coord.x.fin
                                            /\ q.pts[i].coord.y.fin)

\* the three points are on one line (whole coordinates)
Collinear(a, b, c) ==
    ((b.x.v - a.x.v) \div 1000) * ((c.y.v - a.y.v) \div 1000)
        = ((c.x.v - a.x.v) \div 1000) * ((b.y.v - a.y.v) \div 1000)

\* none for a vanishing determinant, and otherwise finite values only
NoneOrFinite(degenerate, o) ==
    /\ degenerate => ~o.has
    /\ o.has => (o.x.fin /\ o.y.fin)

CentreOfPart(q) == Circumcenter(q.pts[1].coord, q.pts[2].coord, q.pts[3].coord)

\* C17: a closed-form solver returns none when its determinant vanishes and
\* otherwise returns finite values only, for every finite input: the
\* circumcentre of three points given by finite coordinates
C17_SolversNoneOrFinite ==
    Generated =>
        \A i \in 1..Len(CircumcircleParts(before.parsed)) :
            NoneOrFinite(Collinear(CircumcircleParts(before.parsed)[i].pts[1].coord,
                                   CircumcircleParts(before.parsed)[i].pts[2].coord,
                                   CircumcircleParts(before.parsed)[i].pts[3].coord),
                         CentreOfPart(CircumcircleParts(before.parsed)[i]))

\* the squares of the coordinates stay in the finite range
SmallPart(q) == \A i \in 1..3 : Abs(q.pts[i].coord.x.v) <= 4000 /\ Abs(q.pts[i].coord.y.v) <= 4000

\* the same for points whose squares are finite; the arc is then drawn, or
\* reported as collinear
C17_SmallInputsNoneOrFinite ==
    Generated =>
        \A i \in 1..Len(CircumcircleParts(before.parsed)) :
            SmallPart(CircumcircleParts(before.parsed)[i]) =>
                /\ NoneOrFinite(Collinear(CircumcircleParts(before.parsed)[i].pts[1].coord,
                                          CircumcircleParts(before.parsed)[i].pts[2].coord,
                                          CircumcircleParts(before.parsed)[i].pts[3].coord),
                                CentreOfPart(CircumcircleParts(before.parsed)[i]))
                /\ \A j \in 1..Len(out.code) : out.code[j].kind # "radius-invalid"

\* three points that are not collinear, a circumcentre that is not finite,
\* and the arc reported as having no valid radius
C17_CentreNotFinite ==
    /\ Generated
    /\ Len(CircumcircleParts(before.parsed)) = 1
    /\ CentreOfPart(CircumcircleParts(before.parsed)[1]).has
    /\ ~CentreOfPart(CircumcircleParts(before.parsed)[1]).x.fin
    /\ \E j \in 1..Len(out.code) : out.code[j].kind = "radius-invalid"

\* an arc drawn about a finite circumcentre, and one reported as collinear
C17_ArcDrawn == Generated /\ \E j \in 1..Len(out.code) : out.code[j].kind = "circum-arc"

----------------------------------------------------------------------------
(* A polygon and its edges *)

\* the triangle t1 on the scene points with its edges c1, a1, b1, each node
\* shown or hidden, and the free segment f
PolygonDocument(showPolygon, showC, showA, showB, showF) ==
    DocumentOf(ScenePoints
               \o <<Item(Element("polygon", "t1", showPolygon, NoCoords, NoMatrix, NaN),
                         <<PolygonABC>>, <<>>),
                    Item(Element("segment", "c1", showC, NoCoords, NoMatrix, NaN), <<>>, <<>>),
                    Item(Element("segment", "a1", showA, NoCoords, NoMatrix, NaN), <<>>, <<>>),
                    Item(Element("segment", "b1", showB, NoCoords, NoMatrix, NaN), <<>>, <<>>),
                    Item(Element("segment", "f", showF, NoCoords, NoMatrix, NaN),
                         <<Command("Segment", <<InLabel("A"), InLabel("B")>>, <<"f">>)>>,
                         <<>>)>>)

Shows == {"absent", "false"}

PolygonDocuments ==
    {PolygonDocument(showPolygon, showC, showA, showB, showF) :
        showPolygon \in Shows, showC \in Shows, showA \in Shows, showB \in Shows,
        showF \in Shows}

InitPolygons ==
    /\ pc = "new"
    /\ parser \in {NewParserInstance(d) : d \in PolygonDocuments}
    /\ parsed = NoParsed
    /\ gen = NoInstance
    /\ out = NoOutput
    /\ before = NoCall
    /\ calls = 0
    /\ app = NoApp

SpecPolygons == InitPolygons /\ [][Next]_vars

----------------------------------------------------------------------------
(* Polygon edges *)

\* the visible segments flagged as edges of a polygon
VisibleEdges(model) ==
    SelectSeq(model.structured.segments, LAMBDA e : e.visible /\ e.fromPolygon)

\* the statements of the segment routine for the segment e
SegmentDraws(code, e) ==
    SelectSeq(code, LAMBDA st : st.cat = "segments" /\ st.kind = "draw" /\ st.label = e.label)

\* the statements of the polygon routine for the polygon that owns e
OwnerDraws(code, e) ==
    SelectSeq(code, LAMBDA st : st.cat = "polygons" /\ st.kind = "draw"
                                /\ st.label = e.polygonLabel)

\* C18: a visible segment flagged as the edge of a polygon is not emitted by
\* the segment routine, and is drawn exactly once, by the polygon that owns it
C18_EdgeDrawnOnce ==
    Generated =>
        \A i \in 1..Len(VisibleEdges(before.parsed)) :
            /\ SegmentDraws(out.code, VisibleEdges(before.parsed)[i]) = <<>>
            /\ Len(OwnerDraws(out.code, VisibleEdges(before.parsed)[i])) = 1

OwnerVisible(model, e) ==
    \E i \in 1..Len(model.structured.polygons) :
        /\ model.structured.polygons[i].label = e.polygonLabel
        /\ model.structured.polygons[i].visible

\* the same for the edges of a visible polygon; the edge of a hidden polygon
\* is drawn by neither routine
C18_EdgeOfVisiblePolygonDrawnOnce ==
    Generated =>
        \A i \in 1..Len(VisibleEdges(before.parsed)) :
            /\ SegmentDraws(out.code, VisibleEdges(before.parsed)[i]) = <<>>
            /\ Len(OwnerDraws(out.code, VisibleEdges(before.parsed)[i]))
                   = IF OwnerVisible(before.parsed, VisibleEdges(before.parsed)[i]) THEN 1 ELSE 0

\* a visible edge of a hidden polygon, drawn by neither routine
C18_EdgeUndrawn ==
    /\ Generated
    /\ \E i \in 1..Len(VisibleEdges(before.parsed)) :
          /\ ~OwnerVisible(before.parsed, VisibleEdges(before.parsed)[i])
          /\ OwnerDraws(out.code, VisibleEdges(before.parsed)[i]) = <<>>
          /\ SegmentDraws(out.code, VisibleEdges(before.parsed)[i]) = <<>>

\* a visible edge of a visible polygon, drawn once by the polygon
C18_EdgeDrawnByPolygon ==
    /\ Generated
    /\ \E i \in 1..Len(VisibleEdges(before.parsed)) :
          /\ OwnerVisible(before.parsed, VisibleEdges(before.parsed)[i])
          /\ Len(OwnerDraws(out.code, VisibleEdges(before.parsed)[i])) = 1

----------------------------------------------------------------------------
(* Points at and away from the origin *)

\* the points a document may hold: O at the origin, O elsewhere, a hidden O,
\* the point A at the origin, the point B elsewhere
OriginPoints ==
    <<PointEl("O", "absent", 0, 0), PointEl("O", "absent", 3000, 3000),
      PointEl("O", "false", 3000, 3000), PointEl("A", "absent", 0, 0),
      PointEl("B", "true", 1000, 2000)>>

\* a document with at most two of these points, and the free segment f
\* between two literal coordinates when withSegment
OriginDocument(I, withSegment) ==
    Document(SelectSeq(OriginPoints, LAMBDA e : \E i \in I : OriginPoints[i] = e)
             \o (IF withSegment THEN <<Plain("segment", "f")>> ELSE <<>>),
             IF withSegment
             THEN <<Command("Segment", <<InCoord("(0,0)", 0, 0), InCoord("(1,1)", 1000, 1000)>>,
                            <<"f">>)>>
             ELSE <<>>,
             <<>>)

OriginDocuments ==
    {OriginDocument(I, withSegment) :
        I \in {J \in SUBSET (1..Len(OriginPoints)) : Cardinality(J) <= 2},
        withSegment \in BOOLEAN}

InitOrigin ==
    /\ pc = "new"
    /\ parser \in {NewParserInstance(d) : d \in OriginDocuments}
    /\ parsed = NoParsed
    /\ gen = NoInstance
    /\ out = NoOutput
    /\ before = NoCall
    /\ calls = 0
    /\ app = NoApp

SpecOrigin == InitOrigin /\ [][Next]_vars

----------------------------------------------------------------------------
(* The origin marker *)

\* the synthesized origin points of the output
SynthesizedOrigins(code) == SelectSeq(code, LAMBDA st : st.kind = "axis-origin")

\* a visible, labelled document point at the origin, with its marker
LabelledAtOrigin(model, code) ==
    \E i \in 1..Len(model.structured.points) :
        /\ model.structured.points[i].visible
        /\ model.structured.points[i].label # ""
        /\ model.structured.points[i].x = Num(0)
        /\ model.structured.points[i].y = Num(0)
        /\ \E j \in 1..Len(code) :
              code[j].kind = "fill" /\ code[j].label = model.structured.points[i].label

\* C19: with the axes shown the output carries a labelled marker at the
\* origin, a visible labelled document point there or exactly one
\* synthesized point, whatever points the document holds; with the axes
\* hidden none is synthesized
C19_OriginMarked ==
    Generated =>
        /\ Len(SynthesizedOrigins(out.code)) <= 1
        /\ before.gen.options.axis =>
              (LabelledAtOrigin(before.parsed, out.code) \/ Len(SynthesizedOrigins(out.code)) = 1)
        /\ ~before.gen.options.axis => SynthesizedOrigins(out.code) = <<>>

VisibleLabelO(model) ==
    \E i \in 1..Len(model.structured.points) :
        model.structured.points[i].visible /\ model.structured.points[i].label = "O"

\* what the point routine does: it runs for a document with points, and
\* synthesizes the origin when the axes are shown and no visible point bears
\* the label O, wherever that point is
C19_OriginSynthesizedUnlessLabelO ==
    Generated =>
        Len(SynthesizedOrigins(out.code))
            = IF before.gen.options.axis /\ before.parsed.structured.points # <<>>
                 /\ ~VisibleLabelO(before.parsed)
              THEN 1 ELSE 0

\* axes shown, a visible point O away from the origin, no marker at the origin
C19_OriginUnmarked ==
    /\ Generated /\ before.gen.options.axis
    /\ VisibleLabelO(before.parsed)
    /\ ~LabelledAtOrigin(before.parsed, out.code)
    /\ SynthesizedOrigins(out.code) = <<>>

\* axes shown and the origin synthesized
C19_OriginSynthesized ==
    Generated /\ before.gen.options.axis /\ Len(SynthesizedOrigins(out.code)) = 1

(***************************************************************************)
(* Point label placement: NativeBoard.jsx optimizePointLabels.  Lengths    *)
(* are ten-thousandths of a centimetre, scores ten-thousandths of a unit,  *)
(* point sizes thousandths of a point.                                     *)
(***************************************************************************)

MaxLabels == 3

LabelCandidates ==
    << [key |-> "above right", dx |-> 1, dy |-> 1],
       [key |-> "above left", dx |-> -1, dy |-> 1],
       [key |-> "below right", dx |-> 1, dy |-> -1],
       [key |-> "below left", dx |-> -1, dy |-> -1],
       [key |-> "above", dx |-> 0, dy |-> 1],
       [key |-> "below", dx |-> 0, dy |-> -1],
       [key |-> "right", dx |-> 1, dy |-> 0],
       [key |-> "left", dx |-> -1, dy |-> 0] >>

LABEL_POSITION_OPTIONS == {LabelCandidates[k].key : k \in 1..Len(LabelCandidates)}

Clamp(lo, hi, v) == Max2(lo, Min2(hi, v))

IntersectsBox(a, b) == ~(a.x2 < b.x1 \/ a.x1 > b.x2 \/ a.y2 < b.y1 \/ a.y1 > b.y2)

EstimateLabelTextWidthCm(text, fontPt) ==
    Max2(2200, (fontPt * (900 * Max2(1, Len(text)) + 1200)) \div 12000)

LabelHeightCm(fontPt) == Max2(1600, (1400 * fontPt) \div 12000)

\* item: an entry of labelOverrides, or no entry
NormalizeLabelOverride(item, maxShiftPt) ==
    IF ~item.has THEN [has |-> FALSE, position |-> "", xshift |-> 0, yshift |-> 0]
    ELSE [has |-> TRUE,
          position |-> IF item.position \in LABEL_POSITION_OPTIONS
                       THEN item.position ELSE "above right",
          xshift |-> Clamp(-Clamp(2000, 50000, maxShiftPt),
                           Clamp(2000, 50000, maxShiftPt), item.xshift),
          yshift |-> Clamp(-Clamp(2000, 50000, maxShiftPt),
                           Clamp(2000, 50000, maxShiftPt), item.yshift)]

\* the (x, y) of a reference token, in ten-thousandths
RefToCoord(ref, coordMap) ==
    IF ref.label = ""
    THEN [has |-> ref.x.fin /\ ref.y.fin, x |-> 10 * ref.x.v, y |-> 10 * ref.y.v]
    ELSE IF ref.label \in DOMAIN coordMap
         THEN [has |-> TRUE, x |-> coordMap[ref.label].x, y |-> coordMap[ref.label].y]
         ELSE [has |-> FALSE, x |-> 0, y |-> 0]

CoordinateLines(code) ==
    SelectSeq(code, LAMBDA s : s.kind = "coordinate" /\ s.refs[1].x.fin /\ s.refs[1].y.fin)

LastDefinition(defs, name) ==
    defs[CHOOSE i \in 1..Len(defs) :
            /\ defs[i].label = name
            /\ \A j \in (i + 1)..Len(defs) : defs[j].label # name]

CoordMapOfLines(defs) ==
    [name \in {defs[i].label : i \in 1..Len(defs)} |->
        [x |-> 10 * LastDefinition(defs, name).refs[1].x.v,
         y |-> 10 * LastDefinition(defs, name).refs[1].y.v]]

NumericRefsOf(s) ==
    IF s.cat = "points" /\ s.kind \in {"fill", "axis-origin"}
    THEN MapSeq(SelectSeq(s.refs, LAMBDA r : r.label = "" /\ r.x.fin /\ r.y.fin),
                LAMBDA r : [x |-> 10 * r.x.v, y |-> 10 * r.y.v])
    ELSE <<>>

\* the coordinate definitions, then the numeric pairs of the \fill lines
CollectNumericPointsFromTikz(code) ==
    [points |-> MapSeq(CoordinateLines(code),
                       LAMBDA s : [x |-> 10 * s.refs[1].x.v, y |-> 10 * s.refs[1].y.v])
                \o Flatten(MapSeq(code, NumericRefsOf)),
     coordMap |-> CoordMapOfLines(CoordinateLines(code))]

\* pointLineRe: a \fill line that carries a node
MatchesPointLine(s) == s.cat = "points" /\ s.kind \in {"fill", "axis-origin"} /\ s.label # ""

OffsetCm(labelOffsetPt) == (labelOffsetPt * 353) \div 1000

CandidateBox(p, c, w, h, offsetCm) ==
    [x1 |-> p.x + c.dx * (offsetCm + (w * 35) \div 100) - w \div 2,
     x2 |-> p.x + c.dx * (offsetCm + (w * 35) \div 100) + w \div 2,
     y1 |-> p.y + c.dy * (offsetCm + (h * 55) \div 100) - h \div 2,
     y2 |-> p.y + c.dy * (offsetCm + (h * 55) \div 100) + h \div 2]

OverlapPenalty(box, assigned) ==
    8000000 * Cardinality({k \in 1..Len(assigned) : IntersectsBox(box, assigned[k])})

ProximityAt(d) == IF d < 1800 THEN (1800 - d) * 350 ELSE 0

ProximityOf(dx, dy) == IF dx >= 1800 \/ dy >= 1800 THEN 0 ELSE ProximityAt(Hypot(dx, dy))

\* pp === p never holds: the point looked up and the entries of allPoints
\* are distinct objects, so the label's own point is counted as well
ProximityPenalty(box, pp) ==
    ProximityOf(Max2(0, Max2(box.x1 - pp.x, pp.x - box.x2)),
                Max2(0, Max2(box.y1 - pp.y, pp.y - box.y2)))

\* outDx * c.dx + outDy * c.dy < 0, both sides multiplied by allPoints.length
CentroidBias(p, c, allPoints) ==
    IF (IF allPoints = <<>>
        THEN p.x * c.dx + p.y * c.dy
        ELSE (p.x * Len(allPoints) - SumSeq(MapSeq(allPoints, LAMBDA q : q.x))) * c.dx
             + (p.y * Len(allPoints) - SumSeq(MapSeq(allPoints, LAMBDA q : q.y))) * c.dy) < 0
    THEN 120000 ELSE 0

CandidateScore(box, p, c, assigned, allPoints) ==
    OverlapPenalty(box, assigned)
    + SumSeq(MapSeq(allPoints, LAMBDA pp : ProximityPenalty(box, pp)))
    + CentroidBias(p, c, allPoints)

CandidateScores(p, w, h, offsetCm, assigned, allPoints) ==
    [k \in 1..Len(LabelCandidates) |->
        CandidateScore(CandidateBox(p, LabelCandidates[k], w, h, offsetCm),
                       p, LabelCandidates[k], assigned, allPoints)]

\* candidates.forEach with score < bestScore; best 0 is null, bestScore -1 is Infinity
RECURSIVE BestCandidate(_, _, _, _)
BestCandidate(k, best, bestScore, scores) ==
    IF k > Len(scores) THEN best
    ELSE IF bestScore < 0 \/ scores[k] < bestScore
         THEN BestCandidate(k + 1, k, scores[k], scores)
         ELSE BestCandidate(k + 1, best, bestScore, scores)

NodeOpts(position, xshift, yshift, fontPt) ==
    [position |-> position, xshift |-> xshift, yshift |-> yshift, font |-> fontPt]

OverrideOf(labelOverrides, label) ==
    IF label \in DOMAIN labelOverrides
    THEN labelOverrides[label]
    ELSE [has |-> FALSE, position |-> "", xshift |-> 0, yshift |-> 0]

\* the clamped options of one call
LabelSettings(options) ==
    [labelOffsetPt |-> Clamp(0, 8000, OrDefault(options.labelOffsetPt, 1000).v),
     labelFontPt |-> Clamp(8000, 20000, OrDefault(options.labelFontPt, 12000).v),
     labelMaxShiftPt |-> Clamp(2000, 50000, OrDefault(options.labelMaxShiftPt, 12000).v),
     labelOverrides |-> options.labelOverrides]

RECURSIVE PlaceFrom(_, _, _, _, _, _)
PlaceForced(lines, i, assigned, coordMap, allPoints, o, forced) ==
    PlaceFrom([lines EXCEPT ![i].nums =
                  <<NodeOpts(forced.position, forced.xshift, forced.yshift, o.labelFontPt)>>],
              i + 1, assigned, coordMap, allPoints, o)

PlaceBest(lines, i, assigned, coordMap, allPoints, o, p, w, h, best) ==
    IF best = 0 THEN PlaceFrom(lines, i + 1, assigned, coordMap, allPoints, o)
    ELSE PlaceFrom([lines EXCEPT ![i].nums =
                       <<NodeOpts(LabelCandidates[best].key,
                                  LabelCandidates[best].dx * o.labelOffsetPt,
                                  LabelCandidates[best].dy * o.labelOffsetPt,
                                  o.labelFontPt)>>],
                   i + 1,
                   Append(assigned, CandidateBox(p, LabelCandidates[best], w, h,
                                                 OffsetCm(o.labelOffsetPt))),
                   coordMap, allPoints, o)

PlaceAt(lines, i, assigned, coordMap, allPoints, o, p, forced) ==
    IF ~p.has THEN PlaceFrom(lines, i + 1, assigned, coordMap, allPoints, o)
    ELSE IF forced.has THEN PlaceForced(lines, i, assigned, coordMap, allPoints, o, forced)
    ELSE PlaceBest(lines, i, assigned, coordMap, allPoints, o, p,
                   EstimateLabelTextWidthCm(lines[i].label, o.labelFontPt),
                   LabelHeightCm(o.labelFontPt),
                   BestCandidate(1, 0, -1,
                       CandidateScores(p,
                           EstimateLabelTextWidthCm(lines[i].label, o.labelFontPt),
                           LabelHeightCm(o.labelFontPt), OffsetCm(o.labelOffsetPt),
                           assigned, allPoints)))

\* the loop over the lines, from line i on
PlaceFrom(lines, i, assigned, coordMap, allPoints, o) ==
    IF i > Len(lines) THEN lines
    ELSE IF ~MatchesPointLine(lines[i])
         THEN PlaceFrom(lines, i + 1, assigned, coordMap, allPoints, o)
         ELSE PlaceAt(lines, i, assigned, coordMap, allPoints, o,
                      RefToCoord(lines[i].refs[1], coordMap),
                      NormalizeLabelOverride(OverrideOf(o.labelOverrides, lines[i].label),
                                             o.labelMaxShiftPt))

OptimizePointLabels(code, coordMap, allPoints, options) ==
    PlaceFrom(code, 1, <<>>, coordMap, allPoints, LabelSettings(options))

OptimizeWith(code, collected, options) ==
    OptimizePointLabels(code, collected.coordMap, collected.points, options)

\* optimizeTikzCodeRules, its label step: the text is scanned, then relabelled
OptimizeTikzCodeRules(prefs) ==
    /\ pc = "done"
    /\ ~out.threw
    /\ out' = [out EXCEPT !.code = OptimizeWith(out.code,
                                       CollectNumericPointsFromTikz(out.code), prefs)]
    /\ before' = [parsed |-> before.parsed, gen |-> before.gen,
                  code |-> out.code, prefs |-> prefs]
    /\ pc' = "optimized"
    /\ UNCHANGED <<parser, parsed, gen, calls, app>>

LabelNames == <<"A", "P_1", "B", "C", "D">>

LabelGrid == {<<0, 0>>, <<100, 0>>, <<300, 0>>, <<100, 100>>}

\* the text generatePoints (and generatePointCoordinateDefs) writes for points
LabelCode(places, defined) ==
    (IF defined /\ Len(places) > 0
     THEN <<Line("coords", "header")>>
          \o [i \in 1..Len(places) |->
                Stmt("coords", "coordinate", LabelNames[i],
                     <<CoordRef(Num(places[i][1]), Num(places[i][2]))>>, <<>>)]
     ELSE <<>>)
    \o <<Line("points", "header")>>
    \o [i \in 1..Len(places) |->
          Stmt("points", "fill", LabelNames[i],
               <<IF defined THEN LabelRef(LabelNames[i])
                 ELSE CoordRef(Num(places[i][1]), Num(places[i][2]))>>, <<>>)]

LabelCodes == {LabelCode(places, defined) : places \in SeqsUpTo(LabelGrid, MaxLabels), defined \in BOOLEAN}

NoOverrides == [name \in {} |-> 0]

OverrideTo(name, position) ==
    [n \in {name} |-> [has |-> TRUE, position |-> position, xshift |-> 0, yshift |-> 0]]

LabelPrefs ==
    {[labelOffsetPt |-> offset, labelFontPt |-> Given(12000), labelMaxShiftPt |-> Absent,
      labelOverrides |-> overrides] :
        offset \in {Absent, Given(0)},
        overrides \in {NoOverrides, OverrideTo("A", "above right"), OverrideTo("P_1", "left")}}

InitLabels ==
    /\ pc = "done"
    /\ parser = NewParserInstance(Document(<<>>, <<>>, <<>>))
    /\ parsed = NoParsed
    /\ gen = NoInstance
    /\ out \in {[threw |-> FALSE, code |-> code] : code \in LabelCodes}
    /\ before = NoCall
    /\ calls = 0
    /\ app = NoApp

NextLabels == \E prefs \in LabelPrefs : OptimizeTikzCodeRules(prefs)

SpecLabels == InitLabels /\ [][NextLabels]_vars

(***************************************************************************)
(* Greedy label placement                                                  *)
(***************************************************************************)

Optimized == pc = "optimized"

PositionIndex(key) == CHOOSE k \in 1..Len(LabelCandidates) : LabelCandidates[k].key = key

\* the labelled point lines, by line number
LabelLines(code) == {i \in 1..Len(code) : MatchesPointLine(code[i]) /\ code[i].nums # <<>>}

PointOfLine(code, i) == RefToCoord(code[i].refs[1], CollectNumericPointsFromTikz(code).coordMap)

\* the box of the label of line i at the anchor direction written on the line
BoxOfLine(code, i, o) ==
    CandidateBox(PointOfLine(code, i), LabelCandidates[PositionIndex(code[i].nums[1].position)],
                 EstimateLabelTextWidthCm(code[i].label, o.labelFontPt),
                 LabelHeightCm(o.labelFontPt), OffsetCm(o.labelOffsetPt))

RECURSIVE BoxesBefore(_, _, _)
BoxesBefore(code, i, o) ==
    IF i <= 1 THEN <<>>
    ELSE BoxesBefore(code, i - 1, o)
         \o (IF (i - 1) \in LabelLines(code) THEN <<BoxOfLine(code, i - 1, o)>> ELSE <<>>)

ScoresOfLine(code, i, o, boxes) ==
    CandidateScores(PointOfLine(code, i),
                    EstimateLabelTextWidthCm(code[i].label, o.labelFontPt),
                    LabelHeightCm(o.labelFontPt), OffsetCm(o.labelOffsetPt),
                    boxes, CollectNumericPointsFromTikz(code).points)

\* candidate k is the first of the lowest-scoring candidates
FirstLowest(k, scores) ==
    /\ \A j \in DOMAIN scores : scores[k] <= scores[j]
    /\ \A j \in 1..(k - 1) : scores[k] < scores[j]

LowestAtLine(code, i, o) ==
    FirstLowest(PositionIndex(code[i].nums[1].position),
                ScoresOfLine(code, i, o, BoxesBefore(code, i, o)))

\* C20: every label is given the first lowest-scoring of the eight candidate
\* directions, the overlap penalty counting the boxes of all labels placed
\* on earlier lines
C20_GreedyLowestScore ==
    Optimized =>
        \A i \in LabelLines(out.code) : LowestAtLine(out.code, i, LabelSettings(before.prefs))

\* the same, for a call without label overrides
C20_LowestScoreWithoutOverrides ==
    (Optimized /\ before.prefs.labelOverrides = NoOverrides) =>
        \A i \in LabelLines(out.code) : LowestAtLine(out.code, i, LabelSettings(before.prefs))

\* a label placed earlier is never revised: the placement of the lines up to
\* i is the placement those lines get when the later lines are absent
PrefixPlaced(code, i, collected, prefs) ==
    SubSeq(OptimizeWith(code, collected, prefs), 1, i)
        = OptimizeWith(SubSeq(code, 1, i), collected, prefs)

C20_EarlierNeverRevised ==
    Optimized =>
        \A i \in 1..Len(before.code) :
            PrefixPlaced(before.code, i, CollectNumericPointsFromTikz(before.code), before.prefs)

\* the result is the value of the pass on the text and the preferences
C20_SameInputSamePlacement ==
    Optimized =>
        out.code = OptimizeWith(before.code, CollectNumericPointsFromTikz(before.code),
                                before.prefs)

\* two labels placed by the pass, the second one moved away from the first
C20_SecondLabelMoved ==
    /\ Optimized
    /\ before.prefs.labelOverrides = NoOverrides
    /\ \E i, j \in LabelLines(out.code) :
          /\ i < j
          /\ out.code[i].nums[1].position = "above right"
          /\ out.code[j].nums[1].position # "above right"

\* a label with an override whose box the next label overlaps
C20_ForcedBoxNotCounted ==
    /\ Optimized
    /\ \E i, j \in LabelLines(out.code) :
          /\ i < j
          /\ out.code[i].label \in DOMAIN before.prefs.labelOverrides
          /\ out.code[j].label \notin DOMAIN before.prefs.labelOverrides
          /\ IntersectsBox(BoxOfLine(out.code, i, LabelSettings(before.prefs)),
                           BoxOfLine(out.code, j, LabelSettings(before.prefs)))
          /\ ~LowestAtLine(out.code, j, LabelSettings(before.prefs))

(***************************************************************************)
(* Rays against an explicit viewport                                       *)
(***************************************************************************)

RayStarts ==
    {InCoord("(0,0)", 0, 0), InCoord("(-3,0)", -3000, 0), InCoord("(-2,1)", -2000, 1000),
     InLabel("A")}

RayThroughs ==
    {InCoord("(1,1)", 1000, 1000), InCoord("(1,0)", 1000, 0), InCoord("(0,0)", 0, 0),
     InLabel("C")}

RayDocument(start, through, show) ==
    DocumentOf(ScenePoints
               \o <<Item(Element("ray", "r", show, NoCoords, NoMatrix, NaN),
                         <<Command("Ray", <<start, through>>, <<"r">>)>>, <<>>)>>)

RayDocuments ==
    {RayDocument(start, through, show) :
        start \in RayStarts, through \in RayThroughs, show \in Shows}

RayOptions ==
    {RawOptions("tikz", "false", define, "false", "absent", "absent",
                Given(-2000), Given(2000), Given(-2000), Given(2000)) :
        define \in {"absent", "false"}}

InitRays ==
    /\ pc = "new"
    /\ parser \in {NewParserInstance(d) : d \in RayDocuments}
    /\ parsed = NoParsed
    /\ gen = NoInstance
    /\ out = NoOutput
    /\ before = NoCall
    /\ calls = 0
    /\ app = NoApp

NextRays ==
    \/ ParseDocument
    \/ \E options \in RayOptions : NewGenerator(options)
    \/ GenerateCode

SpecRays == InitRays /\ [][NextRays]_vars

(***************************************************************************)
(* Far end of a ray                                                        *)
(***************************************************************************)

RayStart(g, r) == CoordOrIndex(g, r.startCoord, r.startLabel)

RayThrough(g, r) == CoordOrIndex(g, r.throughCoord, r.throughLabel)

\* visible rays of the latest call whose two points are known and distinct
ProperRays ==
    SelectSeq(before.parsed.structured.rays, LAMBDA r :
        /\ r.visible
        /\ RayStart(gen, r).has /\ RayThrough(gen, r).has
        /\ RayStart(gen, r) # RayThrough(gen, r))

DegenerateRays ==
    SelectSeq(before.parsed.structured.rays, LAMBDA r :
        /\ r.visible
        /\ RayStart(gen, r).has
        /\ RayStart(gen, r) = RayThrough(gen, r))

RayStatements(code, label) ==
    SelectSeq(code, LAMBDA s : s.cat = "rays" /\ s.kind = "draw" /\ s.label = label)

\* t = n / d with d > 0: the crossing at parameter t
CrossingAt(start, through, t) ==
    CoordRef(Num(start.x.v + RoundDiv(t[1] * (through.x.v - start.x.v), t[2])),
             Num(start.y.v + RoundDiv(t[1] * (through.y.v - start.y.v), t[2])))

NearestOf(cands) ==
    cands[CHOOSE i \in 1..Len(cands) :
             \A j \in 1..Len(cands) : cands[i][1] * cands[j][2] <= cands[j][1] * cands[i][2]]

FarthestOf(cands) ==
    cands[CHOOSE i \in 1..Len(cands) :
             \A j \in 1..Len(cands) : cands[i][1] * cands[j][2] >= cands[j][1] * cands[i][2]]

EndsAtNearest(g, code, r) ==
    RayCandidates(RayStart(g, r), RayThrough(g, r), GetBounds(g)) # <<>> =>
        /\ Len(RayStatements(code, r.label)) = 1
        /\ RayStatements(code, r.label)[1].refs[2]
             = CrossingAt(RayStart(g, r), RayThrough(g, r),
                          NearestOf(RayCandidates(RayStart(g, r), RayThrough(g, r),
                                                  GetBounds(g))))

\* C21: a ray with distinct start and through points is drawn to the boundary
\* crossing of smallest non-negative parameter, and a degenerate ray is not drawn
C21_RayEndsAtNearestCrossing ==
    Generated =>
        /\ \A i \in 1..Len(ProperRays) : EndsAtNearest(gen, out.code, ProperRays[i])
        /\ \A i \in 1..Len(DegenerateRays) :
              RayStatements(out.code, DegenerateRays[i].label) = <<>>

NamedEnds(g, r) ==
    /\ g.options.definePointCoordinates /\ r.startLabel # "" /\ r.throughLabel # ""
    /\ IsValidTikzCoordName(r.startLabel) /\ IsValidTikzCoordName(r.throughLabel)
    /\ IndexHas(g.pointIndex, r.startLabel) /\ IndexHas(g.pointIndex, r.throughLabel)

EndsAsDrawn(g, code, r) ==
    IF RayCandidates(RayStart(g, r), RayThrough(g, r), GetBounds(g)) = <<>>
    THEN RayStatements(code, r.label) = <<>>
    ELSE /\ Len(RayStatements(code, r.label)) = 1
         /\ RayStatements(code, r.label)[1].refs[2]
              = IF NamedEnds(g, r) THEN LabelRef(r.throughLabel)
                ELSE CrossingAt(RayStart(g, r), RayThrough(g, r),
                                FarthestOf(RayCandidates(RayStart(g, r), RayThrough(g, r),
                                                         GetBounds(g))))

\* what the routine does: the crossing of largest parameter inside the viewport,
\* or the through point by name when both points are named coordinates
C21_RayEndsAsDrawn ==
    Generated =>
        /\ \A i \in 1..Len(ProperRays) : EndsAsDrawn(gen, out.code, ProperRays[i])
        /\ \A i \in 1..Len(DegenerateRays) :
              RayStatements(out.code, DegenerateRays[i].label) = <<>>

\* a ray that starts outside the viewport and is drawn to where it leaves it
C21_RayFromOutside ==
    /\ Generated
    /\ \E i \in 1..Len(ProperRays) :
          /\ Len(RayCandidates(RayStart(gen, ProperRays[i]),
                               RayThrough(gen, ProperRays[i]),
                               GetBounds(gen))) = 2
          /\ ~EndsAtNearest(gen, out.code, ProperRays[i])
          /\ Len(RayStatements(out.code, "r")) = 1

(***************************************************************************)
(* Arc through three points                                                *)
(***************************************************************************)

CircumStatements(code) ==
    SelectSeq(code, LAMBDA s : s.kind \in {"circum-arc", "circum-sector"})

\* the statement prints the two angles to two decimals
PrintsAngles(st, start, end) ==
    st.nums[1] = ToFixed2(Num(start)) /\ st.nums[2] = ToFixed2(Num(end))

\* end is the angle of the third point plus whole turns
WholeTurnsFrom(end, third) == end >= third /\ (end - third) % 360000 = 0

PassesSecond(start, end, mid) == (mid - start) % 360000 <= end - start

\* the arc printed by st runs from start to end
ArcFromTo(st, start, end, mid, third, turns) ==
    /\ PrintsAngles(st, start, end)
    /\ WholeTurnsFrom(end, third)
    /\ PassesSecond(start, end, mid)
    /\ end - start < turns * 360000

EndOfArc(o, a, b, c) == EndAngleThroughMid(AngleDeg(o, a), AngleDeg(o, c), AngleDeg(o, b))

ArcThrough(st, q, o) ==
    ArcFromTo(st, AngleDeg(o, q.pts[1].coord),
              EndOfArc(o, q.pts[1].coord, q.pts[2].coord, q.pts[3].coord),
              AngleDeg(o, q.pts[2].coord), AngleDeg(o, q.pts[3].coord), 1)

ArcAsDrawn(st, q, o) ==
    ArcFromTo(st, AngleDeg(o, q.pts[1].coord),
              EndOfArc(o, q.pts[1].coord, q.pts[2].coord, q.pts[3].coord),
              AngleDeg(o, q.pts[2].coord), AngleDeg(o, q.pts[3].coord), 2)

\* the documents of SpecArcs hold one part, so a drawn arc is that part's
DrawnPart == CircumcircleParts(before.parsed)[1]

\* C22: the arc starts at the first point's angle about the circumcentre, ends
\* at the third point's angle plus whole turns, passes the second point's
\* angle and sweeps less than one full turn
C22_ArcThroughMiddle ==
    Generated =>
        \A i \in 1..Len(CircumStatements(out.code)) :
            ArcThrough(CircumStatements(out.code)[i], DrawnPart, CentreOfPart(DrawnPart))

\* the same with a sweep of less than two turns
C22_ArcWithinTwoTurns ==
    Generated =>
        \A i \in 1..Len(CircumStatements(out.code)) :
            ArcAsDrawn(CircumStatements(out.code)[i], DrawnPart, CentreOfPart(DrawnPart))

\* an arc whose second point lies clockwise of the first: a turn is added to
\* the end angle and the sweep exceeds a full turn
C22_MoreThanOneTurn ==
    /\ Generated
    /\ Len(CircumStatements(out.code)) = 1
    /\ CircumStatements(out.code)[1].nums[2].v - CircumStatements(out.code)[1].nums[1].v
           > 360000

(***************************************************************************)
(* Named coordinates                                                       *)
(***************************************************************************)

DefinedBefore(code, i, name) ==
    \E j \in 1..(i - 1) : code[j].kind = "coordinate" /\ code[j].label = name

NamedRefs(st) == {st.refs[k].label : k \in 1..Len(st.refs)} \ {""}

RefsDefined(code) ==
    \A i \in 1..Len(code) :
        code[i].kind # "coordinate" =>
            \A name \in NamedRefs(code[i]) : DefinedBefore(code, i, name)

NoNamedRefs(code) ==
    \A i \in 1..Len(code) : code[i].kind # "coordinate" => NamedRefs(code[i]) = {}

\* C23: every named coordinate a statement refers to is defined by an earlier
\* coordinate definition, and with point-coordinate definitions disabled no
\* statement refers to a point by name
C23_NamedRefsDefined ==
    Generated =>
        /\ RefsDefined(out.code)
        /\ ~gen.options.definePointCoordinates => NoNamedRefs(out.code)

\* the same with point-coordinate definitions enabled
C23_NamedRefsDefinedWhenEnabled ==
    (Generated /\ gen.options.definePointCoordinates) => RefsDefined(out.code)

\* the same for every statement but the angle marks
C23_NamedRefsOutsideAngles ==
    Generated =>
        /\ RefsDefined(SelectSeq(out.code, LAMBDA s : s.cat # "angles"))
        /\ ~gen.options.definePointCoordinates
              => NoNamedRefs(SelectSeq(out.code, LAMBDA s : s.cat # "angles"))

\* an angle mark naming its three points in a text without coordinate definitions
C23_MarkWithoutDefinitions ==
    /\ Generated
    /\ ~gen.options.definePointCoordinates
    /\ \E i \in 1..Len(out.code) :
          out.code[i].kind \in {"mark", "right-angle"} /\ NamedRefs(out.code[i]) # {}
    /\ \A i \in 1..Len(out.code) : out.code[i].kind # "coordinate"

\* statements naming coordinates that are defined earlier
C23_NamedAndDefined ==
    /\ Generated
    /\ gen.options.definePointCoordinates
    /\ \E i \in 1..Len(out.code) :
          out.code[i].kind # "coordinate" /\ NamedRefs(out.code[i]) # {}

(***************************************************************************)
(* Hidden elements under every option                                      *)
(***************************************************************************)

Hide(item) == [item EXCEPT !.el.show = "false"]

\* one element of each category, over the three scene points
ShownItems ==
    {Pool[i] : i \in {4, 5, 6, 7, 9, 10, 11, 14, 15}}
    \cup {Item(PointEl("D", "absent", 2000, 2000), <<>>, <<>>)}

HiddenDocuments ==
    {DocumentOf(ScenePoints \o <<item>>) : item \in ShownItems}
    \cup {DocumentOf(ScenePoints \o <<Hide(item)>>) : item \in ShownItems}

WithSemanticFirst(options, flag) == [options EXCEPT !.semanticFirst = flag]

HiddenOptions ==
    {WithSemanticFirst(RawOptions("tikz", "false", define, "absent", strict, derived,
                                  Absent, Absent, Absent, Absent), semantic) :
        define \in {"absent", "false"}, strict \in {"absent", "false"},
        derived \in {"absent", "true"}, semantic \in {"absent", "false"}}

InitHidden ==
    /\ pc = "new"
    /\ parser \in {NewParserInstance(d) : d \in HiddenDocuments}
    /\ parsed = NoParsed
    /\ gen = NoInstance
    /\ out = NoOutput
    /\ before = NoCall
    /\ calls = 0
    /\ app = NoApp

NextHidden ==
    \/ ParseDocument
    \/ \E options \in HiddenOptions : NewGenerator(options)
    \/ GenerateCode

SpecHidden == InitHidden /\ [][NextHidden]_vars

ElementCategories ==
    {"functions", "conics", "conicparts", "lines", "rays", "polygons", "vectors", "segments",
     "angles", "points"}

StatementsFor(code, cat, label) == SelectSeq(code, LAMBDA s : s.cat = cat /\ s.label = label)

HiddenUndrawn(code, structured, cats) ==
    \A cat \in cats :
        \A i \in 1..Len(structured[cat]) :
            ~structured[cat][i].visible
                => StatementsFor(code, cat, structured[cat][i].label) = <<>>

LinesOnce(code, lines) ==
    \A i \in 1..Len(lines) :
        lines[i].visible => Len(StatementsFor(code, "lines", lines[i].label)) <= 1

\* C24: no statement is emitted for an element whose visibility flag is false,
\* in any category and under every option combination, and each visible line
\* is drawn at most once
C24_HiddenNotDrawn ==
    Generated =>
        /\ HiddenUndrawn(out.code, before.parsed.structured, ElementCategories)
        /\ LinesOnce(out.code, before.parsed.structured.lines)

\* the same for every category but the lines
C24_HiddenNotDrawnButLines ==
    Generated =>
        /\ HiddenUndrawn(out.code, before.parsed.structured, ElementCategories \ {"lines"})
        /\ LinesOnce(out.code, before.parsed.structured.lines)

\* the same when line relations are not used
C24_HiddenNotDrawnWithoutRelations ==
    (Generated /\ (gen.options.strictStatic \/ ~gen.options.semanticFirst)) =>
        HiddenUndrawn(out.code, before.parsed.structured, ElementCategories)

\* a hidden line drawn from its relation
C24_HiddenLineDrawn ==
    /\ Generated
    /\ \E i \in 1..Len(before.parsed.structured.lines) :
          /\ ~before.parsed.structured.lines[i].visible
          /\ Len(StatementsFor(out.code, "lines", before.parsed.structured.lines[i].label)) = 1

\* a hidden element of another category, and nothing drawn for it
C24_HiddenSkipped ==
    /\ Generated
    /\ \E cat \in ElementCategories \ {"lines", "points"} :
          \E i \in 1..Len(before.parsed.structured[cat]) :
              ~before.parsed.structured[cat][i].visible

(***************************************************************************)
(* llm.js: requestWithFallback.  A step runs from one await to the next.   *)
(***************************************************************************)

\* the generator is not involved
GeneratorIdle ==
    /\ pc = "page"
    /\ parser = NewParserInstance(Document(<<>>, <<>>, <<>>))
    /\ parsed = NoParsed
    /\ gen = NoInstance
    /\ out = NoOutput
    /\ before = NoCall
    /\ calls = 0

ProviderKeys == {"doubao", "openai", "deepseek"}

\* buildCompletionRequests: the labels of the candidate requests
BuildCompletionRequests(providerKey) ==
    IF providerKey = "doubao"
    THEN <<"responses", "chat_completions_fallback">>
    ELSE <<"chat_completions">>

\* the parsed body of a response: which of the fields hold text
NoData == [output_text |-> FALSE, output |-> FALSE, choices |-> FALSE, message |-> FALSE]

ResponseBodies ==
    [output_text : BOOLEAN, output : BOOLEAN, choices : BOOLEAN, message : BOOLEAN]

HttpStatuses == {200, 401, 500}

\* what comes back from fetch: a rejected promise, or a response
Responses ==
    {[rejected |-> TRUE, status |-> 0, data |-> NoData]}
    \cup {[rejected |-> FALSE, status |-> status, data |-> data] :
             status \in HttpStatuses, data \in ResponseBodies}

\* response.ok
Ok(response) == response.status \in 200..299

\* extractAssistantText: the field the text is taken from, "" when it throws
ExtractAssistantText(providerKey, data) ==
    IF providerKey = "doubao" /\ data.output_text THEN "output_text"
    ELSE IF providerKey = "doubao" /\ data.output THEN "output"
    ELSE IF data.choices THEN "choices"
    ELSE ""

NoResult == [kind |-> "pending", via |-> "", content |-> "", raw |-> NoData, message |-> <<>>]

IdleLlm ==
    [component |-> "llm", providerKey |-> "", requests |-> <<>>, next |-> 1,
     awaiting |-> FALSE, sent |-> <<>>, errors |-> <<>>, result |-> NoResult]

\* the message recorded for a candidate that failed
FailureOf(label, response) ==
    [label |-> label,
     msg |-> IF ~Ok(response)
             THEN (IF response.data.message THEN "message" ELSE "HTTP status")
             ELSE "no assistant text",
     status |-> response.status]

\* requestWithFallback up to its first await: the first candidate is sent
RequestWithFallback(providerKey) ==
    /\ app.result.kind = "pending" /\ ~app.awaiting /\ app.sent = <<>>
    /\ app' = [app EXCEPT !.providerKey = providerKey,
                          !.requests = BuildCompletionRequests(providerKey),
                          !.errors = <<>>,
                          !.next = 2,
                          !.sent = <<BuildCompletionRequests(providerKey)[1]>>,
                          !.awaiting = TRUE]
    /\ UNCHANGED genVars

\* the loop after the errors of a failed candidate are recorded: the next
\* candidate is sent, or the collected errors are thrown
ContinueWith(a, errors) ==
    IF a.next <= Len(a.requests)
    THEN [a EXCEPT !.errors = errors, !.sent = Append(a.sent, a.requests[a.next]),
                   !.next = a.next + 1, !.awaiting = TRUE]
    ELSE [a EXCEPT !.errors = errors, !.awaiting = FALSE,
                   !.result = [NoResult EXCEPT !.kind = "thrown", !.message = errors]]

\* the continuation after the awaited fetch settles
Settled(a, label, response) ==
    IF response.rejected
    THEN [a EXCEPT !.awaiting = FALSE,
                   !.result = [NoResult EXCEPT
                                  !.kind = "thrown",
                                  !.message = <<[label |-> "", msg |-> "fetch failed",
                                                 status |-> 0]>>]]
    ELSE IF Ok(response) /\ ExtractAssistantText(a.providerKey, response.data) # ""
    THEN [a EXCEPT !.awaiting = FALSE,
                   !.result = [kind |-> "returned", via |-> label,
                               content |-> ExtractAssistantText(a.providerKey, response.data),
                               raw |-> response.data, message |-> <<>>]]
    ELSE ContinueWith(a, Append(a.errors, FailureOf(label, response)))

Settle(response) ==
    /\ app.awaiting
    /\ app' = Settled(app, app.sent[Len(app.sent)], response)
    /\ UNCHANGED genVars

InitFallback == GeneratorIdle /\ app = IdleLlm

NextFallback ==
    \/ \E providerKey \in ProviderKeys : RequestWithFallback(providerKey)
    \/ \E response \in Responses : Settle(response)

SpecFallback == InitFallback /\ [][NextFallback]_vars

(***************************************************************************)
(* Fallback order                                                          *)
(***************************************************************************)

\* the candidates sent so far are the first candidates of the list, in order
SentInOrder(a) ==
    /\ Len(a.sent) <= Len(a.requests)
    /\ \A i \in 1..Len(a.sent) : a.sent[i] = a.requests[i]

\* every candidate before the last one sent has its failure recorded
EarlierFailed(a) ==
    /\ Len(a.errors) >= Len(a.sent) - 1
    /\ \A i \in 1..Len(a.errors) : a.errors[i].label = a.sent[i]

ReturnsFirstSuccess(a) ==
    a.result.kind = "returned" =>
        /\ a.result.via = a.sent[Len(a.sent)]
        /\ Len(a.errors) = Len(a.sent) - 1
        /\ ~a.awaiting

ThrowsAfterAllFailed(a) ==
    a.result.kind = "thrown" =>
        /\ Len(a.sent) = Len(a.requests)
        /\ Len(a.errors) = Len(a.requests)
        /\ a.result.message = a.errors

\* C25: candidates go out one at a time in list order, the next one only after
\* the one before failed; the first success is returned under its label with
\* nothing sent after it; the error thrown aggregates the failure of every
\* candidate and comes only after all of them failed
C25_FallbackInOrder ==
    app.sent # <<>> =>
        /\ SentInOrder(app)
        /\ EarlierFailed(app)
        /\ ReturnsFirstSuccess(app)
        /\ ThrowsAfterAllFailed(app)

\* the same, apart from a call ended by a rejected fetch
C25_FallbackInOrderUnlessRejected ==
    app.sent # <<>> =>
        /\ SentInOrder(app)
        /\ EarlierFailed(app)
        /\ ReturnsFirstSuccess(app)
        /\ (\A i \in 1..Len(app.result.message) : app.result.message[i].label # "")
              => ThrowsAfterAllFailed(app)

\* a rejected fetch of the first of two candidates: the call has thrown and
\* the second candidate was never sent
C25_RejectedEndsCall ==
    /\ app.result.kind = "thrown"
    /\ Len(app.requests) = 2
    /\ app.sent = <<"responses">>
    /\ app.errors = <<>>

\* the second candidate answered after the first one failed
C25_FallbackUsed ==
    /\ app.result.kind = "returned"
    /\ app.result.via = "chat_completions_fallback"
    /\ Len(app.errors) = 1

(***************************************************************************)
(* Command panel: whitelist check and execution.  A command line is the    *)
(* sequence of its tokens.                                                 *)
(***************************************************************************)

MaxBatch == 2

GGB_ALLOWED_COMMANDS ==
    {"Point", "Intersect", "Segment", "Line", "Ray", "Vector", "Polygon", "RegularPolygon",
     "RigidPolygon", "VectorPolygon", "Circle", "Incircle", "Ellipse", "Hyperbola", "Parabola",
     "Tangent", "OrthogonalLine", "PerpendicularLine", "PerpendicularBisector",
     "AngularBisector", "Semicircle", "CircleArc", "CircleSector", "CircumcircleArc",
     "CircumcircleSector", "Midpoint", "Center"}

GGB_ALLOWED_MATH_FUNCS ==
    {"sin", "cos", "tan", "asin", "acos", "atan", "sqrt", "abs", "ln", "log", "exp", "floor",
     "ceil", "round", "min", "max", "sinh", "cosh", "tanh", "sec", "csc", "cot"}

GGB_RESERVED_BUILTINS == {"xAxis", "yAxis"}

Punctuation == {"=", "(", ")", "[", "]", ",", "//"}

Numerals == {"1", "2", "90"}

\* /^[A-Za-z][A-Za-z0-9_]*$/
IsIdentifier(token) == token \notin Punctuation \cup Numerals

ToLowerCase(name) == IF name = "Sin" THEN "sin" ELSE IF name = "SQRT" THEN "sqrt" ELSE name

\* line.indexOf('='): the place of the first equals sign, 0 when there is none
IndexOfEquals(line) ==
    IF \E i \in 1..Len(line) : line[i] = "="
    THEN CHOOSE i \in 1..Len(line) : line[i] = "=" /\ \A j \in 1..(i - 1) : line[j] # "="
    ELSE 0

\* parseCommandLines: comment lines and empty lines are dropped
ParseCommandLines(rawText) ==
    SelectSeq(rawText, LAMBDA line : line # <<>> /\ line[1] # "//")

\* the place where the alias may stand: at the start, or after `name =`
AliasPlace(line) ==
    IF Len(line) >= 3 /\ IsIdentifier(line[1]) /\ line[2] = "=" /\ line[3] = "AngleBisector"
    THEN 3 ELSE 1

NormalizePrimaryCommandAlias(line) ==
    IF Len(line) > AliasPlace(line) /\ line[AliasPlace(line)] = "AngleBisector"
       /\ line[AliasPlace(line) + 1] = "("
    THEN [line EXCEPT ![AliasPlace(line)] = "AngularBisector"]
    ELSE line

NormalizeCommandAliases(lines) == MapSeq(lines, NormalizePrimaryCommandAlias)

\* the expression after the first equals sign, or the whole line
ExpressionOf(line) == SubSeq(line, IndexOfEquals(line) + 1, Len(line))

\* extractPrimaryCallName: "" is null
ExtractPrimaryCallName(line) ==
    IF Len(ExpressionOf(line)) >= 2 /\ IsIdentifier(ExpressionOf(line)[1])
       /\ ExpressionOf(line)[2] = "("
    THEN ExpressionOf(line)[1]
    ELSE ""

RedefinesBuiltin(line) ==
    IndexOfEquals(line) = 2 /\ line[1] \in GGB_RESERVED_BUILTINS

NameAllowed(name) ==
    name = "" \/ name \in GGB_ALLOWED_COMMANDS \/ ToLowerCase(name) \in GGB_ALLOWED_MATH_FUNCS

\* validateCommandsAgainstWhitelist: the numbers of the lines found invalid
ValidateCommandsAgainstWhitelist(lines) ==
    {i \in 1..Len(lines) :
        \/ RedefinesBuiltin(lines[i])
        \/ ~NameAllowed(ExtractPrimaryCallName(NormalizePrimaryCommandAlias(lines[i])))}

\* the lines handed to the board, natively one by one or joined for the frame
HandedToBoard(a, lines) ==
    IF a.board = "native"
    THEN [a EXCEPT !.executed = lines, !.status = "native"]
    ELSE IF a.board = "legacy"
    THEN [a EXCEPT !.executed = lines, !.status = "legacy"]
    ELSE [a EXCEPT !.status = "no board"]

ExecutedLines(a, lines, invalid) ==
    IF lines = <<>> THEN [a EXCEPT !.status = "empty"]
    ELSE IF invalid # {} /\ a.strictWhitelist THEN [a EXCEPT !.status = "blocked"]
    ELSE HandedToBoard(a, lines)

ExecuteLines(a, lines) == ExecutedLines(a, lines, ValidateCommandsAgainstWhitelist(lines))

\* executeCommandsToLegacy
ExecuteCommandsToLegacy ==
    /\ app.status = "editing"
    /\ app' = ExecuteLines(app, NormalizeCommandAliases(ParseCommandLines(app.commandEditor)))
    /\ UNCHANGED genVars

CommandLines ==
    {<<"A", "=", "(", "1", ",", "2", ")">>,
     <<"s", "=", "Segment", "(", "A", ",", "B", ")">>,
     <<"b", "=", "AngleBisector", "(", "A", ",", "B", ",", "C", ")">>,
     <<"Sin", "(", "1", ")">>,
     <<"//", "Delete", "(", "A", ")">>,
     <<"Delete", "(", "A", ")">>,
     <<"xAxis", "=", "Line", "(", "A", ",", "B", ")">>,
     <<"s", "=", "Segment", "(", "A", ",", "Rotate", "(", "B", ",", "90", ")", ")">>,
     <<"Delete", "[", "A", "]">>}

InitCommands ==
    /\ GeneratorIdle
    /\ app \in {[component |-> "commands", commandEditor |-> text, strictWhitelist |-> strict,
                 board |-> board, executed |-> <<>>, status |-> "editing"] :
                   text \in SeqsUpTo(CommandLines, MaxBatch), strict \in BOOLEAN,
                   board \in {"native", "legacy", "none"}}

NextCommands == ExecuteCommandsToLegacy

SpecCommands == InitCommands /\ [][NextCommands]_vars

(***************************************************************************)
(* Strict whitelist                                                        *)
(***************************************************************************)

\* the names a line calls: every identifier of its expression that is
\* followed by an opening parenthesis or bracket
InvokedNames(line) ==
    {ExpressionOf(line)[i] : i \in {j \in 1..(Len(ExpressionOf(line)) - 1) :
        /\ IsIdentifier(ExpressionOf(line)[j])
        /\ ExpressionOf(line)[j + 1] \in {"(", "["}}}

LineWithinWhitelist(line) ==
    /\ \A name \in InvokedNames(line) :
          name \in GGB_ALLOWED_COMMANDS \/ ToLowerCase(name) \in GGB_ALLOWED_MATH_FUNCS
    /\ ~RedefinesBuiltin(line)

\* C26: in strict mode every line that reaches the board calls allowed
\* commands and functions only and redefines no built-in, and a batch with a
\* line that does not is not executed at all
C26_StrictWhitelist ==
    app.strictWhitelist =>
        /\ \A i \in 1..Len(app.executed) : LineWithinWhitelist(app.executed[i])
        /\ (\E i \in 1..Len(app.commandEditor) :
               app.commandEditor[i][1] # "//" /\ ~LineWithinWhitelist(app.commandEditor[i]))
              => app.executed = <<>>

\* the same for the name that heads the expression of a line
C26_StrictPrimaryNames ==
    app.strictWhitelist =>
        /\ \A i \in 1..Len(app.executed) :
              /\ NameAllowed(ExtractPrimaryCallName(app.executed[i]))
              /\ ~RedefinesBuiltin(app.executed[i])
        /\ ValidateCommandsAgainstWhitelist(ParseCommandLines(app.commandEditor)) # {}
              => app.executed = <<>>

\* a line calling a command outside the list inside an allowed one, executed
\* in strict mode
C26_NestedCallExecuted ==
    /\ app.strictWhitelist
    /\ \E i \in 1..Len(app.executed) : "Rotate" \in InvokedNames(app.executed[i])

\* a batch stopped in strict mode
C26_BatchBlocked == app.strictWhitelist /\ app.status = "blocked" /\ app.executed = <<>>

(***************************************************************************)
(* Providers: the built-in table and the custom providers kept in local    *)
(* storage.  The stored JSON object is the sequence of its entries.        *)
(***************************************************************************)

API_PROVIDERS ==
    [openai |-> [name |-> "OpenAI", baseUrl |-> "https://api.openai.com/v1"],
     deepseek |-> [name |-> "DeepSeek", baseUrl |-> "https://api.deepseek.com/v1"],
     siliconflow |-> [name |-> "siliconflow", baseUrl |-> "https://api.siliconflow.cn/v1"],
     doubao |-> [name |-> "doubao", baseUrl |-> "https://ark.cn-beijing.volces.com/api/v3"],
     qwen |-> [name |-> "qwen", baseUrl |-> "https://dashscope.aliyuncs.com/compatible-mode/v1"],
     kimi |-> [name |-> "Kimi", baseUrl |-> "https://api.moonshot.cn/v1"]]

\* Object.prototype.hasOwnProperty.call(API_PROVIDERS, key)
IsBuiltinProvider(key) == key \in DOMAIN API_PROVIDERS

\* String(providerKey || '').trim()
TrimKey(providerKey) ==
    CASE providerKey \in {"absent", "", " "} -> ""
      [] providerKey = " openai " -> "openai"
      [] providerKey = "kimi " -> "kimi"
      [] providerKey = " mine" -> "mine"
      [] OTHER -> providerKey

\* String(value || '').trim() for the fields of a payload
TrimField(value) ==
    CASE value = "absent" -> ""
      [] value = " Mine " -> "Mine"
      [] OTHER -> value

NormalizeProviderPayload(payload) ==
    [name |-> TrimField(payload.name), baseUrl |-> TrimField(payload.baseUrl)]

StoredKeys(stored) == {stored[i].key : i \in 1..Len(stored)}

StoredAt(stored, key) == CHOOSE i \in 1..Len(stored) : stored[i].key = key

\* current[key] = value, on the entries of the parsed object
SetEntry(stored, key, value) ==
    IF key \in StoredKeys(stored)
    THEN [stored EXCEPT ![StoredAt(stored, key)] = [key |-> key, value |-> value]]
    ELSE Append(stored, [key |-> key, value |-> value])

\* delete current[key]
DeleteEntry(stored, key) == SelectSeq(stored, LAMBDA entry : entry.key # key)

\* getProviderMap: the built-in table spread first, the stored entries over it
GetProviderMap(stored) ==
    [key \in DOMAIN API_PROVIDERS \cup StoredKeys(stored) |->
        IF key \in StoredKeys(stored) THEN stored[StoredAt(stored, key)].value
        ELSE API_PROVIDERS[key]]

\* getProvider
GetProvider(stored, providerKey) ==
    IF providerKey \in DOMAIN GetProviderMap(stored)
    THEN GetProviderMap(stored)[providerKey]
    ELSE GetProviderMap(stored)["openai"]

UpsertUnchecked(a, key, payload) ==
    IF key = "" THEN [a EXCEPT !.outcome = "threw"]
    ELSE [a EXCEPT !.stored = SetEntry(a.stored, key, NormalizeProviderPayload(payload)),
                   !.outcome = "stored"]

Upserted(a, key, payload) ==
    IF key = "" THEN [a EXCEPT !.outcome = "threw"]
    ELSE IF IsBuiltinProvider(key) THEN [a EXCEPT !.outcome = "threw"]
    ELSE [a EXCEPT !.stored = SetEntry(a.stored, key, NormalizeProviderPayload(payload)),
                   !.outcome = "stored"]

Removed(a, key) ==
    IF key = "" \/ IsBuiltinProvider(key) THEN [a EXCEPT !.outcome = "returned"]
    ELSE [a EXCEPT !.stored = DeleteEntry(a.stored, key), !.outcome = "removed"]

ProviderKeyInputs == {"absent", " ", "openai", " openai ", "kimi ", "mine", " mine", "other", "third"}

ProviderPayloads ==
    {[name |-> "absent", baseUrl |-> "absent"],
     [name |-> " Mine ", baseUrl |-> "https://mine.example/v1"],
     [name |-> "OpenAI", baseUrl |-> "https://other.example/v1"]}

\* upsertCustomProvider
UpsertCustomProvider(providerKey, payload) ==
    /\ app' = Upserted([app EXCEPT !.call = [op |-> "upsert", key |-> providerKey]],
                       TrimKey(providerKey), payload)
    /\ UNCHANGED genVars

\* removeCustomProvider
RemoveCustomProvider(providerKey) ==
    /\ app' = Removed([app EXCEPT !.call = [op |-> "remove", key |-> providerKey]],
                      TrimKey(providerKey))
    /\ UNCHANGED genVars

InitProviders ==
    /\ GeneratorIdle
    /\ app = [component |-> "providers", stored |-> <<>>,
              call |-> [op |-> "none", key |-> "absent"], outcome |-> "none"]

NextProviders ==
    \/ \E providerKey \in ProviderKeyInputs, payload \in ProviderPayloads :
          UpsertCustomProvider(providerKey, payload)
    \/ \E providerKey \in ProviderKeyInputs : RemoveCustomProvider(providerKey)

SpecProviders == InitProviders /\ [][NextProviders]_vars

(***************************************************************************)
(* Built-in providers stay                                                 *)
(***************************************************************************)

BuiltinsResolve ==
    \A key \in DOMAIN API_PROVIDERS :
        /\ GetProviderMap(app.stored)[key] = API_PROVIDERS[key]
        /\ GetProvider(app.stored, key) = API_PROVIDERS[key]

RejectedKey(providerKey) == TrimKey(providerKey) = "" \/ IsBuiltinProvider(TrimKey(providerKey))

RejectedCallsChangeNothing ==
    RejectedKey(app'.call.key) =>
        /\ app'.stored = app.stored
        /\ app'.call.op = "upsert" => app'.outcome = "threw"
        /\ app'.call.op = "remove" => app'.outcome = "returned"

\* C27: every built-in key resolves to its built-in definition whatever was
\* upserted or removed; an upsert under a built-in or empty key throws and a
\* remove under one returns, both leaving the stored providers as they were
C27_BuiltinsKept == []BuiltinsResolve /\ [][RejectedCallsChangeNothing]_vars

\* custom providers are stored and an upsert under a built-in key was refused
C27_BuiltinUpsertRefused ==
    /\ Len(app.stored) >= 2
    /\ app.call.op = "upsert"
    /\ TrimKey(app.call.key) = "openai"
    /\ app.outcome = "threw"

(***************************************************************************)
(* Command panel: the prompt list and the active prompt.  Effects run      *)
(* after the render that follows a handler, before the next handler.       *)
(***************************************************************************)

MaxClock == 3

MaxPrompts == 2

PromptIdTexts == <<"prompt_1", "prompt_2", "prompt_3", "prompt_4", "prompt_5">>

\* `prompt_${Date.now()}`
PromptIdAt(now) == PromptIdTexts[now]

DefaultPrompt ==
    [id |-> "default", name |-> "default prompt", content |-> "DEFAULT_PROMPT_FALLBACK",
     builtin |-> TRUE]

\* String(draft || '').trim()
TrimDraft(draft) ==
    CASE draft \in {"absent", " "} -> ""
      [] draft = " n1 " -> "n1"
      [] OTHER -> draft

\* ensurePromptConfigs, with the fallback text as default content
EnsurePromptConfigs(customConfigs) ==
    <<DefaultPrompt>> \o
    MapSeq(SelectSeq(customConfigs, LAMBDA x : x.id # "" /\ x.id # "default" /\ ~x.builtin),
           LAMBDA x : [id |-> x.id,
                       name |-> IF x.name = "" THEN "unnamed" ELSE x.name,
                       content |-> x.content, builtin |-> FALSE])

PromptIdsOf(promptConfigs) == {promptConfigs[i].id : i \in 1..Len(promptConfigs)}

Rendered(a) == [a EXCEPT !.pendingEffects = TRUE]

\* openPromptEditor
OpenedEditor(a, targetPromptId) ==
    IF targetPromptId = "absent"
    THEN Rendered([a EXCEPT !.editingPromptId = "", !.promptEditorOpen = TRUE])
    ELSE IF targetPromptId \notin PromptIdsOf(a.promptConfigs) THEN a
    ELSE IF targetPromptId = "default"
    THEN Rendered([a EXCEPT !.status = "default not editable"])
    ELSE Rendered([a EXCEPT !.editingPromptId = targetPromptId, !.promptEditorOpen = TRUE])

EditedConfigs(promptConfigs, id, name, content) ==
    MapSeq(promptConfigs,
           LAMBDA p : IF p.id = id THEN [p EXCEPT !.name = name, !.content = content] ELSE p)

\* savePromptConfig
SavedPrompt(a, name, content, now) ==
    IF name = "" THEN Rendered([a EXCEPT !.status = "name required"])
    ELSE IF content = "" THEN Rendered([a EXCEPT !.status = "content required"])
    ELSE IF a.editingPromptId # ""
    THEN IF a.editingPromptId = "default"
         THEN Rendered([a EXCEPT !.status = "default not editable"])
         ELSE Rendered([a EXCEPT
                 !.promptConfigs = EditedConfigs(a.promptConfigs, a.editingPromptId, name, content),
                 !.activePromptId = a.editingPromptId,
                 !.status = "updated", !.promptEditorOpen = FALSE])
    ELSE Rendered([a EXCEPT
            !.promptConfigs = Append(a.promptConfigs,
                [id |-> PromptIdAt(now), name |-> name, content |-> content, builtin |-> FALSE]),
            !.activePromptId = PromptIdAt(now),
            !.now = now,
            !.status = "added", !.promptEditorOpen = FALSE])

PromptWithId(promptConfigs, id) ==
    promptConfigs[CHOOSE i \in 1..Len(promptConfigs) :
        promptConfigs[i].id = id /\ \A j \in 1..(i - 1) : promptConfigs[j].id # id]

DeletedUnguarded(a, id, confirmed) ==
    IF id \notin PromptIdsOf(a.promptConfigs) THEN a
    ELSE IF ~confirmed THEN a
    ELSE Rendered([a EXCEPT
            !.promptConfigs = SelectSeq(a.promptConfigs, LAMBDA p : p.id # id),
            !.activePromptId = IF a.activePromptId = id THEN "default" ELSE a.activePromptId,
            !.status = "deleted"])

\* deletePromptById
DeletedPrompt(a, id, confirmed) ==
    IF id \notin PromptIdsOf(a.promptConfigs) THEN a
    ELSE IF PromptWithId(a.promptConfigs, id).builtin
    THEN Rendered([a EXCEPT !.status = "default not deletable"])
    ELSE IF ~confirmed THEN a
    ELSE Rendered([a EXCEPT
            !.promptConfigs = SelectSeq(a.promptConfigs, LAMBDA p : p.id # id),
            !.activePromptId = IF a.activePromptId = id THEN "default" ELSE a.activePromptId,
            !.status = "deleted"])

\* the effect on [promptConfigs, activePromptId]
ActivePromptEffect(a) ==
    IF a.activePromptId \in PromptIdsOf(a.promptConfigs)
    THEN [a EXCEPT !.pendingEffects = FALSE]
    ELSE [a EXCEPT !.activePromptId = "default", !.pendingEffects = FALSE]

PromptTargets == {"absent", "default", "prompt_1", "prompt_2", "prompt_9"}

DraftNames == {"absent", " n1 ", "n2"}

DraftContents == {" ", "c1"}

OpenPromptEditor(targetPromptId) ==
    /\ ~app.pendingEffects
    /\ app' = OpenedEditor(app, targetPromptId)
    /\ UNCHANGED genVars

SavePromptConfig(promptDraftName, promptDraftContent, now) ==
    /\ ~app.pendingEffects
    /\ app.promptEditorOpen
    /\ Len(app.promptConfigs) <= MaxPrompts
    /\ now <= MaxClock
    /\ app' = SavedPrompt(app, TrimDraft(promptDraftName), TrimDraft(promptDraftContent), now)
    /\ UNCHANGED genVars

DeletePromptById(id, confirmed) ==
    /\ ~app.pendingEffects
    /\ app' = DeletedPrompt(app, id, confirmed)
    /\ UNCHANGED genVars

\* onClick={() => setActivePromptId(p.id)}
SelectPrompt(id) ==
    /\ ~app.pendingEffects
    /\ id \in PromptIdsOf(app.promptConfigs)
    /\ app' = Rendered([app EXCEPT !.activePromptId = id])
    /\ UNCHANGED genVars

RunEffects ==
    /\ app.pendingEffects
    /\ app' = ActivePromptEffect(app)
    /\ UNCHANGED genVars

StoredPromptLists ==
    {<<>>, <<[id |-> "prompt_1", name |-> "n0", content |-> "c0", builtin |-> FALSE]>>}

InitPrompts ==
    /\ GeneratorIdle
    /\ \E stored \in StoredPromptLists, active \in {"default", "prompt_1"} :
          app = [component |-> "prompts", promptConfigs |-> EnsurePromptConfigs(stored),
                 activePromptId |-> active, editingPromptId |-> "", promptEditorOpen |-> FALSE,
                 status |-> "", now |-> 1, pendingEffects |-> TRUE]

NextPrompts ==
    \/ \E targetPromptId \in PromptTargets : OpenPromptEditor(targetPromptId)
    \/ \E name \in DraftNames, content \in DraftContents, now \in {app.now, app.now + 1} :
          SavePromptConfig(name, content, now)
    \/ \E id \in PromptTargets, confirmed \in BOOLEAN : DeletePromptById(id, confirmed)
    \/ \E id \in PromptTargets : SelectPrompt(id)
    \/ RunEffects

SpecPrompts == InitPrompts /\ [][NextPrompts]_vars

(***************************************************************************)
(* The default prompt and the active prompt                                *)
(***************************************************************************)

DefaultFirstAndOnly ==
    /\ app.promptConfigs[1] = DefaultPrompt
    /\ \A i \in 2..Len(app.promptConfigs) :
          app.promptConfigs[i].id # "default" /\ ~app.promptConfigs[i].builtin

ActivePromptListed ==
    ~app.pendingEffects => app.activePromptId \in PromptIdsOf(app.promptConfigs)

DeletedActiveFallsBack ==
    (/\ app.activePromptId \notin PromptIdsOf(app'.promptConfigs)
     /\ app'.status = "deleted" /\ app.promptConfigs # app'.promptConfigs)
       => app'.activePromptId = "default"

\* C28: the list always starts with the one built-in entry 'default', name
\* and content as built in; once the effects have run the active id names
\* an entry of the list, and deleting the active entry makes 'default' active
C28_DefaultPromptKept ==
    /\ [](DefaultFirstAndOnly /\ ActivePromptListed)
    /\ [][DeletedActiveFallsBack]_vars

\* the active custom prompt was deleted and 'default' became active, with
\* another custom prompt still listed
C28_ActiveDeleted ==
    /\ app.status = "deleted"
    /\ app.activePromptId = "default"
    /\ Len(app.promptConfigs) >= 2
    /\ ~app.pendingEffects

(***************************************************************************)
(* Command panel: chat and conversation history.  The history-size         *)
(* setting is a number in thousandths, as the number input delivers it.    *)
(***************************************************************************)

MaxSends == 4

\* Math.max(1, Math.min(20, Number(e.target.value) || 1)), in thousandths
HistorySettingOf(value) ==
    IF value = 0 THEN 1000
    ELSE IF value < 1000 THEN 1000
    ELSE IF value > 20000 THEN 20000
    ELSE value

HistoryInputs == {0, 500, 1000, 1500, 2000, 25000}

\* the last -Math.max(1, maxHistory) * 2 entries: slice truncates its argument
SliceCount(maxHistory) == (2 * (IF maxHistory > 1000 THEN maxHistory ELSE 1000)) \div 1000

SliceLast(list, count) ==
    IF Len(list) <= count THEN list ELSE SubSeq(list, Len(list) - count + 1, Len(list))

UserEntry(serial, text) ==
    [role |-> "user", serial |-> serial,
     content |-> IF text = "" THEN "[image]" ELSE text]

AssistantEntry(serial, content) ==
    [role |-> "assistant", serial |-> serial, content |-> content]

NoRequest == [serial |-> 0, text |-> "", maxHistory |-> 0, messages |-> <<>>]

\* String.prototype.trim on the typed text
TrimInput(userInput) == IF userInput = " " THEN "" ELSE userInput

\* the messages of the request: the recent history, then the new message
RequestMessages(a, text) ==
    (IF a.contextMemory THEN SliceLast(a.conversationHistory, SliceCount(a.maxHistory))
     ELSE <<>>) \o <<UserEntry(a.serial + 1, text)>>

\* sendMessage up to the await of the request
SentMessage(a, text, hasImage) ==
    IF ~a.hasKey THEN [a EXCEPT !.status = "key and model required"]
    ELSE IF text = "" /\ ~hasImage THEN [a EXCEPT !.status = "nothing to send"]
    ELSE [a EXCEPT !.serial = a.serial + 1,
                   !.chatMessages = a.chatMessages + 1,
                   !.loading = TRUE,
                   !.status = "requesting",
                   !.request = [serial |-> a.serial + 1, text |-> text,
                                maxHistory |-> a.maxHistory,
                                messages |-> RequestMessages(a, text)]]

HistoryAppendedAll(prev, request, content) ==
    prev \o <<UserEntry(request.serial, request.text),
              AssistantEntry(request.serial, content)>>

\* the updater given to setConversationHistory
HistoryAppended(prev, request, content) ==
    SliceLast(prev \o <<UserEntry(request.serial, request.text),
                        AssistantEntry(request.serial, content)>>,
              SliceCount(request.maxHistory))

\* sendMessage after the await: the request resolved or threw
Answered(a, result) ==
    IF result.kind = "content"
    THEN [a EXCEPT !.chatMessages = a.chatMessages + 1,
                   !.conversationHistory =
                       HistoryAppended(a.conversationHistory, a.request, result.content),
                   !.succeeded = HistoryAppendedAll(a.succeeded, a.request, result.content),
                   !.status = "succeeded", !.loading = FALSE, !.request = NoRequest]
    ELSE [a EXCEPT !.chatMessages = a.chatMessages + 1,
                   !.status = "failed", !.loading = FALSE, !.request = NoRequest]

\* sendMessage, called on Enter when nothing is loading
SendMessage(userInput, hasImage) ==
    /\ ~app.loading
    /\ app.serial < MaxSends
    /\ app' = SentMessage(app, TrimInput(userInput), hasImage)
    /\ UNCHANGED genVars

RequestSettles(result) ==
    /\ app.loading
    /\ app' = Answered(app, result)
    /\ UNCHANGED genVars

\* clearChat
ClearChat ==
    /\ app' = [app EXCEPT !.chatMessages = 0, !.conversationHistory = <<>>,
                          !.succeeded = <<>>, !.status = "cleared"]
    /\ UNCHANGED genVars

ChatResults == {[kind |-> "content", content |-> "reply"], [kind |-> "error", content |-> ""]}

InitChat ==
    /\ GeneratorIdle
    /\ \E value \in HistoryInputs, memory \in BOOLEAN, hasKey \in BOOLEAN :
          app = [component |-> "chat", maxHistory |-> HistorySettingOf(value),
                 contextMemory |-> memory, hasKey |-> hasKey, conversationHistory |-> <<>>,
                 succeeded |-> <<>>, chatMessages |-> 0, serial |-> 0, loading |-> FALSE,
                 request |-> NoRequest, status |-> ""]

NextChat ==
    \/ \E userInput \in {"", " ", "text"}, hasImage \in BOOLEAN : SendMessage(userInput, hasImage)
    \/ \E result \in ChatResults : RequestSettles(result)
    \/ ClearChat

SpecChat == InitChat /\ [][NextChat]_vars

(***************************************************************************)
(* Bounded history                                                         *)
(***************************************************************************)

HistoryBounded ==
    1000 * Len(app.conversationHistory)
        <= 2 * (IF app.maxHistory > 1000 THEN app.maxHistory ELSE 1000)

\* the history is the tail of what succeeded since the last clearing
HistoryIsRecent ==
    app.conversationHistory = SliceLast(app.succeeded, Len(app.conversationHistory))

\* and it is made of whole pairs: a user entry, then the answer to it
HistoryInPairs ==
    /\ Len(app.conversationHistory) % 2 = 0
    /\ \A i \in 1..Len(app.conversationHistory) :
          app.conversationHistory[i].role = (IF i % 2 = 1 THEN "user" ELSE "assistant")

FailureAddsNothing ==
    app'.status = "failed" => app'.conversationHistory = app.conversationHistory

ClearingEmpties == app'.status = "cleared" => app'.conversationHistory = <<>>

\* C29: the history holds at most 2 * max(1, maxHistory) entries, which are
\* the most recent successful user/assistant pairs in order, for every value
\* of the setting; a failed request adds nothing and clearChat empties it
C29_HistoryBoundedPairs ==
    /\ [](HistoryBounded /\ HistoryIsRecent /\ HistoryInPairs)
    /\ [][FailureAddsNothing /\ ClearingEmpties]_vars

\* the same when the setting is a whole number
C29_HistoryOfWholeSettings ==
    /\ [](app.maxHistory % 1000 = 0 => HistoryBounded /\ HistoryIsRecent /\ HistoryInPairs)
    /\ [][FailureAddsNothing /\ ClearingEmpties]_vars

\* size and recency without the pairing, for every setting
C29_HistoryBoundedRecent ==
    /\ [](HistoryBounded /\ HistoryIsRecent)
    /\ [][FailureAddsNothing /\ ClearingEmpties]_vars

\* with the setting at 1.5 the history holds an answer without its question
C29_AnswerWithoutQuestion ==
    /\ app.maxHistory = 1500
    /\ Len(app.conversationHistory) = 3
    /\ app.conversationHistory[1].role = "assistant"

\* the history was cut to its bound after a success
C29_HistoryCut ==
    /\ app.status = "succeeded"
    /\ app.maxHistory = 1000
    /\ Len(app.succeeded) > Len(app.conversationHistory)

(***************************************************************************)
(* Native board: loading the TikZJax script once.  A load is known by its  *)
(* number; the render function a script installs carries the number of its *)
(* load; 0 is null.  A script event and the promise reactions it queues    *)
(* run before any other task.                                              *)
(***************************************************************************)

MaxLoads == 3

MaxCallers == 4

IdleBoard ==
    [component |-> "board", tikzJaxRenderFn |-> 0, tikzJaxReadyPromise |-> 0,
     promises |-> <<>>, calls |-> <<>>, renders |-> 0, status |-> ""]

LoadsInFlight(a) == {k \in 1..Len(a.promises) : a.promises[k] = "pending"}

LoadInFlight(a) == IF LoadsInFlight(a) = {} THEN 0 ELSE CHOOSE k \in LoadsInFlight(a) : TRUE

CallReturned(a, kind, value, started) ==
    [a EXCEPT !.calls = Append(a.calls, [kind |-> kind, value |-> value, started |-> started,
                                         during |-> LoadInFlight(a), cancelled |-> FALSE]),
              !.promises = IF started THEN Append(a.promises, "pending") ELSE a.promises,
              !.tikzJaxReadyPromise = IF started THEN value ELSE a.tikzJaxReadyPromise]

StartedLoad(a) == CallReturned(a, "promise", Len(a.promises) + 1, TRUE)

EnsuredWithoutSharing(a) ==
    IF a.tikzJaxRenderFn # 0 THEN CallReturned(a, "resolved", a.tikzJaxRenderFn, FALSE)
    ELSE StartedLoad(a)

\* ensureTikzJaxReady
Ensured(a) ==
    IF a.tikzJaxRenderFn # 0 THEN CallReturned(a, "resolved", a.tikzJaxRenderFn, FALSE)
    ELSE IF a.tikzJaxReadyPromise # 0 THEN CallReturned(a, "promise", a.tikzJaxReadyPromise, FALSE)
    ELSE StartedLoad(a)

\* script.onload, then the reactions of the promise
Loaded(a, load, installed) ==
    IF installed
    THEN [a EXCEPT !.tikzJaxRenderFn = load, !.promises[load] = "resolved"]
    ELSE [a EXCEPT !.promises[load] = "rejected", !.tikzJaxReadyPromise = 0]

\* script.onerror, then the reactions of the promise
Failed(a, load) == [a EXCEPT !.promises[load] = "rejected", !.tikzJaxReadyPromise = 0]

\* the cleanup of the previous preview effect
Cancelled(a) ==
    [a EXCEPT !.calls = [i \in 1..Len(a.calls) |-> [a.calls[i] EXCEPT !.cancelled = TRUE]]]

\* what a caller gets: a render function, an error, or nothing yet
OutcomeOf(a, call) ==
    IF call.kind = "resolved" THEN <<"render", call.value>>
    ELSE IF a.promises[call.value] = "resolved" THEN <<"render", call.value>>
    ELSE IF a.promises[call.value] = "rejected" THEN <<"error", call.value>>
    ELSE <<"pending", call.value>>

\* the callers still waiting whose effect was not cleaned up
Waiting(a, load) ==
    {i \in 1..Len(a.calls) :
        a.calls[i].kind = "promise" /\ a.calls[i].value = load /\ ~a.calls[i].cancelled}

\* the reactions of the callers to the settled promise of a load
Reacted(a, load) ==
    IF Waiting(a, load) = {} THEN a
    ELSE IF a.promises[load] = "resolved"
    THEN [a EXCEPT !.renders = a.renders + Cardinality(Waiting(a, load))]
    ELSE [a EXCEPT !.status = "preview failed"]

\* the reaction of a caller that was handed the function at once
ReactedAtOnce(a) ==
    IF a.calls # <<>> /\ a.calls[Len(a.calls)].kind = "resolved"
    THEN [a EXCEPT !.renders = a.renders + 1]
    ELSE a

\* the preview effect: the previous cleanup, then a call unless the preview
\* is empty
PreviewEffect(content) ==
    /\ Len(app.calls) < MaxCallers
    /\ app.tikzJaxRenderFn = 0 /\ app.tikzJaxReadyPromise = 0 => Len(app.promises) < MaxLoads
    /\ app' = IF content = "" THEN Cancelled(app) ELSE ReactedAtOnce(Ensured(Cancelled(app)))
    /\ UNCHANGED genVars

ScriptOnload(installed) ==
    /\ LoadsInFlight(app) # {}
    /\ \E load \in LoadsInFlight(app) : app' = Reacted(Loaded(app, load, installed), load)
    /\ UNCHANGED genVars

ScriptOnerror ==
    /\ LoadsInFlight(app) # {}
    /\ \E load \in LoadsInFlight(app) : app' = Reacted(Failed(app, load), load)
    /\ UNCHANGED genVars

InitBoard == GeneratorIdle /\ app = IdleBoard

NextBoard ==
    \/ \E content \in {"", "tikz"} : PreviewEffect(content)
    \/ \E installed \in BOOLEAN : ScriptOnload(installed)
    \/ ScriptOnerror

SpecBoard == InitBoard /\ [][NextBoard]_vars

(***************************************************************************)
(* One load at a time                                                      *)
(***************************************************************************)

OneLoadInFlight == Cardinality(LoadsInFlight(app)) <= 1

\* a caller that arrived during a load holds the promise of that load
ArrivalsShare ==
    \A i \in 1..Len(app.calls) :
        app.calls[i].during # 0 =>
            /\ ~app.calls[i].started
            /\ app.calls[i].kind = "promise"
            /\ app.calls[i].value = app.calls[i].during

CallMade == Len(app'.calls) = Len(app.calls) + 1

LastCall(a) == a.calls[Len(a.calls)]

\* after a success: the same function, no further load
AfterSuccess ==
    app.tikzJaxRenderFn # 0 =>
        /\ app'.tikzJaxRenderFn = app.tikzJaxRenderFn
        /\ Len(app'.promises) = Len(app.promises)
        /\ CallMade => OutcomeOf(app', LastCall(app')) = <<"render", app.tikzJaxRenderFn>>

\* after a failure: a new load, never the failed promise
AfterFailure ==
    (CallMade /\ app.tikzJaxRenderFn = 0 /\ LoadsInFlight(app) = {}) =>
        /\ LastCall(app').started
        /\ OutcomeOf(app', LastCall(app'))[1] = "pending"

\* C30: at most one script load is in flight and the callers arriving during
\* it hold its promise; after a success every call gets the same render
\* function and no load starts; after a failure the next call starts a load
C30_SingleLoad ==
    /\ [](OneLoadInFlight /\ ArrivalsShare)
    /\ [][AfterSuccess /\ AfterFailure]_vars

\* a load failed with two callers waiting on it, and a later call started
\* the second load
C30_RetriedAfterFailure ==
    /\ Len(app.promises) = 2
    /\ app.promises[1] = "rejected"
    /\ app.promises[2] = "pending"
    /\ Len(app.calls) = 3
    /\ app.calls[2].during = 1
    /\ app.calls[3].started

====
